---- MODULE Spec2Model ----
(***************************************************************************)
(* A model of the jwplayer-react component (src/src/jwplayer.tsx and       *)
(* src/src/util.ts): one component instance, the player handle it owns,    *)
(* the loader, and the owner / player / test surface that drives it.       *)
(*                                                                         *)
(* Property names and event names are sequences of one-character strings,  *)
(* so that the regular-expression match and the lower-casing done by       *)
(* getHandlerName are computed and not assumed.  Property values are       *)
(* strings: a value in Funcs is a function reference (two references are   *)
(* identical iff the strings are equal), a value in ObjectRefs is a        *)
(* reference to an object whose content ObjectAt gives, any other value    *)
(* is a plain datum.  A property bag is a sequence of entries [k, v] in    *)
(* insertion order (the order Object.keys yields).                         *)
(***************************************************************************)
EXTENDS Integers, Sequences, FiniteSets, TLC

\* ------------------------------------------------------------------ bounds
\* how many times the test surface may step outside the lifecycle: call
\* componentDidMount directly, or clear the stored dispatch reference
MaxSurfaceCalls == 1
\* the value of the process-wide id counter up to which the renders of the
\* instance and the first renders of other instances are followed
MaxIdIndex == 1
\* properties in a bag the dispatch and comparison functions are applied to
MaxBagLen == 2
\* other instances rendered on the page at one time
MaxOthers == 2
\* the value of the counter up to which direct calls of generateUniqueId and
\* the re-renders of other instances are followed
MaxCalls == 3

\* ----------------------------------------------------------------- strings
Alphabet ==
  << "A","B","C","D","E","F","G","H","I","J","K","L","M",
     "N","O","P","Q","R","S","T","U","V","W","X","Y","Z",
     "a","b","c","d","e","f","g","h","i","j","k","l","m",
     "n","o","p","q","r","s","t","u","v","w","x","y","z" >>

NUpper == Len(Alphabet) \div 2

\* position of a letter in code-unit order (upper case before lower case)
Code(c) == CHOOSE i \in 1..Len(Alphabet) : Alphabet[i] = c

IsUpper(c) == Code(c) <= NUpper

\* String.prototype.toLowerCase on one character
ToLowerCase(c) == IF IsUpper(c) THEN Alphabet[Code(c) + NUpper] ELSE c

\* s.slice(n): the characters of s from 0-based index n on
Slice(s, n) == IF n >= Len(s) THEN << >> ELSE SubSeq(s, n + 1, Len(s))

\* a < b in the order Array.prototype.sort uses for strings
RECURSIVE StrLess(_, _)
StrLess(a, b) ==
  IF b = << >> THEN FALSE
  ELSE IF a = << >> THEN TRUE
  ELSE IF Head(a) = Head(b) THEN StrLess(Tail(a), Tail(b))
  ELSE Code(Head(a)) < Code(Head(b))

RECURSIVE Insert(_, _)
Insert(x, s) ==
  IF s = << >> THEN << x >>
  ELSE IF StrLess(x, Head(s)) THEN << x >> \o s
  ELSE << Head(s) >> \o Insert(x, Tail(s))

\* Array.prototype.sort() on an array of strings
RECURSIVE Sort(_)
Sort(s) == IF s = << >> THEN << >> ELSE Insert(Head(s), Sort(Tail(s)))

\* ------------------------------------------------------------ names in use
K_library == << "l","i","b","r","a","r","y" >>
K_playlist == << "p","l","a","y","l","i","s","t" >>
K_width == << "w","i","d","t","h" >>
K_height == << "h","e","i","g","h","t" >>
K_config == << "c","o","n","f","i","g" >>
K_id == << "i","d" >>
K_unsupported == << "u","n","s","u","p","p","o","r","t","e","d" >>
K_isReactComponent ==
  << "i","s","R","e","a","c","t","C","o","m","p","o","n","e","n","t" >>
K_onPlay == << "o","n","P","l","a","y" >>
K_onPause == << "o","n","P","a","u","s","e" >>
K_onAll == << "o","n","A","l","l" >>
K_oncePause == << "o","n","c","e","P","a","u","s","e" >>
K_onPlaylistComplete ==
  << "o","n","P","l","a","y","l","i","s","t","C","o","m","p","l","e","t","e" >>
K_oncePlaylistComplete ==
  << "o","n","c","e","P","l","a","y","l","i","s","t","C","o","m","p","l","e","t","e" >>
K_onceReady == << "o","n","c","e","R","e","a","d","y" >>
K_on == << "o","n" >>
K_online == << "o","n","l","i","n","e" >>
K_didMountCallback ==
  << "d","i","d","M","o","u","n","t","C","a","l","l","b","a","c","k" >>
K_willUnmountCallback ==
  << "w","i","l","l","U","n","m","o","u","n","t","C","a","l","l","b","a","c","k" >>

E_play == << "p","l","a","y" >>
E_pause == << "p","a","u","s","e" >>

\* const.ts is not among the sources; ALL and the two patterns follow the
\* specification: "on" / "once" followed by a capitalised event name.
ALL == << "a","l","l" >>

ON_REGEX == << "o","n" >>

ONCE_REGEX == << "o","n","c","e" >>

\* prop.match(regex): << >> when there is no match, else << whole, group 1 >>
Match(prop, regex) ==
  LET n == Len(regex) IN
  IF Len(prop) > n /\ SubSeq(prop, 1, n) = regex /\ IsUpper(prop[n + 1])
  THEN << prop, Slice(prop, n) >>
  ELSE << >>

\* the extraction without the change of case
getHandlerNameKeepCase(prop, regex) ==
  LET m == Match(prop, regex) IN
  IF m = << >> THEN << >> ELSE m[2]

\* util.ts getHandlerName
getHandlerName(prop, regex) ==
  LET m == Match(prop, regex)
      match == IF m = << >> THEN << << >>, << >> >> ELSE m
      g == match[2]
  IN  IF g = << >> THEN << >>
      ELSE << ToLowerCase(g[1]) >> \o Slice(g, 1)

\* ------------------------------------------------------------------ values
Undefined == "undefined"

Funcs == { "f1", "f2", "g1", "g2", "a1", "m1", "u1" }

IsFunction(v) == v \in Funcs

\* JavaScript truthiness of the values in use
Truthy(v) == v \notin { Undefined, "" }

\* ------------------------------------------------------------ property bags
Entry(k, v) == [k |-> k, v |-> v]

\* Object.keys(bag)
Keys(bag) == [i \in 1..Len(bag) |-> bag[i].k]

Has(bag, k) == \E i \in 1..Len(bag) : bag[i].k = k

\* bag[k]
Get(bag, k) ==
  IF Has(bag, k) THEN bag[CHOOSE i \in 1..Len(bag) : bag[i].k = k].v
  ELSE Undefined

\* obj[k] = v: an existing key keeps its position, a new key is appended
Put(bag, k, v) ==
  IF Has(bag, k)
  THEN [i \in 1..Len(bag) |-> IF bag[i].k = k THEN Entry(k, v) ELSE bag[i]]
  ELSE Append(bag, Entry(k, v))

\* { ...a, ...b }
RECURSIVE Spread(_, _)
Spread(a, b) ==
  IF b = << >> THEN a ELSE Spread(Put(a, Head(b).k, Head(b).v), Tail(b))

\* --------------------------------------------------- objects held by props
\* values that refer to an object (the config property); ObjectAt is the
\* object behind the reference
ObjectRefs == { "cfgA" }

ObjectAt(ref) ==
  IF ref = "cfgA"
  THEN << Entry(K_width, "400"), Entry(K_height, "300"),
          Entry(K_isReactComponent, "false") >>
  ELSE << >>

\* config-props.ts is not among the sources: the whitelist of player options,
\* as far as the names in use go (tests: playlist, width, height pass; library
\* and unsupported names do not)
configProps == { K_playlist, K_width, K_height }

\* util.ts generateConfig
RECURSIVE PickConfig(_, _)
PickConfig(props, config) ==
  IF props = << >> THEN config
  ELSE PickConfig(Tail(props),
                  IF Head(props).k \in configProps
                  THEN Put(config, Head(props).k, Head(props).v)
                  ELSE config)

\* the layers spread with the config object above the individual properties
generateConfigObjectWins(props) ==
  LET config == PickConfig(props, << >>)
      base == IF Get(props, K_config) \in ObjectRefs
              THEN ObjectAt(Get(props, K_config)) ELSE << >>
  IN  Spread(Spread(config, base), << Entry(K_isReactComponent, "true") >>)

generateConfig(props) ==
  LET config == PickConfig(props, << >>)
      base == IF Get(props, K_config) \in ObjectRefs
              THEN ObjectAt(Get(props, K_config)) ELSE << >>
  IN  Spread(Spread(base, config), << Entry(K_isReactComponent, "true") >>)

\* ------------------------------------------------------------------- calls
\* one call made by the component to the player or to a callback of the bag
NoCall ==
  [op |-> "", ev |-> << >>, fn |-> Undefined, d |-> 0, bag |-> << >>, cfg |-> << >>,
   player |-> "", id |-> [prefix |-> "", n |-> 0], n |-> 0, arg |-> ""]

SetupCall(cfg) == [NoCall EXCEPT !.op = "setup", !.cfg = cfg]

OnceCall(ev, fn) == [NoCall EXCEPT !.op = "once", !.ev = ev, !.fn = fn]

\* on(ev, h) and off(ev, h), h a dispatch function [id, bag]
OnCall(ev, h) == [NoCall EXCEPT !.op = "on", !.ev = ev, !.d = h.id, !.bag = h.bag]

OffCall(ev, h) == [NoCall EXCEPT !.op = "off", !.ev = ev, !.d = h.id, !.bag = h.bag]

OffAllCall == [NoCall EXCEPT !.op = "offAll"]

RemoveCall == [NoCall EXCEPT !.op = "remove"]

\* callback({ player, id })
LifecycleCall(op, fn, player, id) ==
  [NoCall EXCEPT !.op = op, !.fn = fn, !.player = player, !.id = id]

\* handler(payload)
Invoke1(fn, arg) == [NoCall EXCEPT !.op = "invoke", !.fn = fn, !.n = 1, !.arg = arg]

\* handler(name, payload)
Invoke2(fn, ev, arg) ==
  [NoCall EXCEPT !.op = "invoke", !.fn = fn, !.ev = ev, !.n = 2, !.arg = arg]

\* -------------------------------------------------------- event multiplexer
\* a dispatch function that treats the catch-all as an alternative to the
\* named handler
DispatchPropElse(props, prop, name, optReturn) ==
  LET onHandlerName == getHandlerName(prop, ON_REGEX)
      handler == Get(props, prop)
  IN  IF onHandlerName # << >> /\ onHandlerName = name
      THEN (IF IsFunction(handler) THEN << Invoke1(handler, optReturn) >> ELSE << >>)
      ELSE IF onHandlerName = ALL /\ IsFunction(handler)
      THEN << Invoke2(handler, name, optReturn) >>
      ELSE << >>

\* the two tests without the typeof checks
DispatchPropNoTypeCheck(props, prop, name, optReturn) ==
  LET onHandlerName == getHandlerName(prop, ON_REGEX)
      handler == Get(props, prop)
  IN  (IF onHandlerName # << >> /\ onHandlerName = name
       THEN << Invoke1(handler, optReturn) >> ELSE << >>)
      \o
      (IF onHandlerName = ALL
       THEN << Invoke2(handler, name, optReturn) >> ELSE << >>)

\* the first test without its truthiness guard
DispatchPropNoNameGuard(props, prop, name, optReturn) ==
  LET onHandlerName == getHandlerName(prop, ON_REGEX)
      handler == Get(props, prop)
  IN  (IF onHandlerName = name /\ IsFunction(handler)
       THEN << Invoke1(handler, optReturn) >> ELSE << >>)
      \o
      (IF onHandlerName = ALL /\ IsFunction(handler)
       THEN << Invoke2(handler, name, optReturn) >> ELSE << >>)

\* jwplayer.tsx createOnEventHandler: the calls the returned function makes
\* when invoked as fn(name, optReturn), the closure being over props
DispatchProp(props, prop, name, optReturn) ==
  LET onHandlerName == getHandlerName(prop, ON_REGEX)
      handler == Get(props, prop)
  IN  (IF onHandlerName # << >> /\ onHandlerName = name /\ IsFunction(handler)
       THEN << Invoke1(handler, optReturn) >> ELSE << >>)
      \o
      (IF onHandlerName = ALL /\ IsFunction(handler)
       THEN << Invoke2(handler, name, optReturn) >> ELSE << >>)

RECURSIVE DispatchKeys(_, _, _, _)
DispatchKeys(props, keys, name, optReturn) ==
  IF keys = << >> THEN << >>
  ELSE DispatchProp(props, Head(keys), name, optReturn)
       \o DispatchKeys(props, Tail(keys), name, optReturn)

Dispatch(props, name, optReturn) == DispatchKeys(props, Keys(props), name, optReturn)

\* a dispatch function: its identity and the bag it closes over
NoHandler == [id |-> 0, bag |-> << >>]

createOnEventHandler(fid, props) == [id |-> fid, bag |-> props]

\* a first loop that goes by the pattern of the fire-every handlers
RECURSIVE OnceCallsOnRegex(_, _)
OnceCallsOnRegex(props, keys) ==
  IF keys = << >> THEN << >>
  ELSE LET prop == Head(keys)
           onceHandlerName == getHandlerName(prop, ON_REGEX)
           handler == Get(props, prop)
       IN  (IF onceHandlerName # << >> /\ IsFunction(handler)
            THEN << OnceCall(onceHandlerName, handler) >> ELSE << >>)
           \o OnceCallsOnRegex(props, Tail(keys))

\* jwplayer.tsx createEventListeners, first loop: the once() registrations
RECURSIVE OnceCalls(_, _)
OnceCalls(props, keys) ==
  IF keys = << >> THEN << >>
  ELSE LET prop == Head(keys)
           onceHandlerName == getHandlerName(prop, ONCE_REGEX)
           handler == Get(props, prop)
       IN  (IF onceHandlerName # << >> /\ IsFunction(handler)
            THEN << OnceCall(onceHandlerName, handler) >> ELSE << >>)
           \o OnceCalls(props, Tail(keys))

\* a filter that takes every name beginning with on
RECURSIVE FilterOnAnyPrefix(_)
FilterOnAnyPrefix(keys) ==
  IF keys = << >> THEN << >>
  ELSE (IF Len(Head(keys)) > 2 /\ SubSeq(Head(keys), 1, 2) = << "o", "n" >>
        THEN << Head(keys) >> ELSE << >>)
       \o FilterOnAnyPrefix(Tail(keys))

\* Array.prototype.filter with onEventFilter
RECURSIVE FilterOn(_)
FilterOn(keys) ==
  IF keys = << >> THEN << >>
  ELSE (IF Match(Head(keys), ON_REGEX) # << >> THEN << Head(keys) >> ELSE << >>)
       \o FilterOn(Tail(keys))

\* a comparison of the handler names in the order the bags list them
didOnEventsChangeUnsorted(current, nextProps) ==
  LET currEvents == FilterOn(Keys(current))
      nextEvents == FilterOn(Keys(nextProps))
  IN  IF Len(nextEvents) # Len(currEvents) THEN TRUE
      ELSE \E index \in 1..Len(nextEvents) :
             \/ currEvents[index] # nextEvents[index]
             \/ Get(nextProps, nextEvents[index]) # Get(current, nextEvents[index])

\* jwplayer.tsx didOnEventsChange, current being propsRef.current
didOnEventsChange(current, nextProps) ==
  LET currEvents == Sort(FilterOn(Keys(current)))
      nextEvents == Sort(FilterOn(Keys(nextProps)))
  IN  IF Len(nextEvents) # Len(currEvents) THEN TRUE
      ELSE \E index \in 1..Len(nextEvents) :
             \/ currEvents[index] # nextEvents[index]
             \/ Get(nextProps, nextEvents[index]) # Get(current, nextEvents[index])

\* ------------------------------------------------------------ property bags
\* the bags the owner renders the component with, and the test surface passes
B_empty == << >>

B_play1 ==
  << Entry(K_library, "url"), Entry(K_playlist, "pl"), Entry(K_onPlay, "f1"),
     Entry(K_didMountCallback, "m1"), Entry(K_willUnmountCallback, "u1") >>

B_play2 ==
  << Entry(K_library, "url"), Entry(K_playlist, "pl"), Entry(K_onPlay, "f2"),
     Entry(K_didMountCallback, "m1"), Entry(K_willUnmountCallback, "u1") >>

B_mixed ==
  << Entry(K_id, "custom"), Entry(K_config, "cfgA"), Entry(K_width, "720"),
     Entry(K_unsupported, "3"), Entry(K_oncePause, "g1"), Entry(K_onAll, "a1"),
     Entry(K_onPause, "3"), Entry(K_willUnmountCallback, "u1") >>

\* the bags the owner re-renders with
RenderBags == { B_play2, B_mixed }

\* the bags the test surface passes as nextProps
NextBags == { B_play2, B_empty }

\* window.jwDefaults as the page may have set it
D_none == << >>

D_some ==
  << Entry(K_width, "100"), Entry(K_playlist, "dpl"),
     Entry(K_isReactComponent, "no") >>

\* the page and the first render: is window.jwplayer set, window.jwDefaults,
\* and the bag of the first render
Page(runtime, defaults, bag) == [runtime |-> runtime, defaults |-> defaults, bag |-> bag]

Pages ==
  { Page(TRUE, D_none, B_play1), Page(FALSE, D_none, B_play1),
    Page(TRUE, D_some, B_mixed), Page(FALSE, D_some, B_play2),
    Page(TRUE, D_none, B_empty), Page(FALSE, D_none, B_empty) }

\* events the player emits, and the payload it passes
Events == { E_play, E_pause }

Payload == "p1"

\* error events a failing script element reports
ErrorEvents == { "ev1", "ev2" }

\* ------------------------------------------------------------------- state
VARIABLES
  hasRuntime,    \* window.jwplayer is set
  jwDefaults,    \* window.jwDefaults
  idIndex,       \* util.ts idIndex, the process-wide counter
  issued,        \* the values generateUniqueId has returned, in call order
  id,            \* idRef.current
  props,         \* the bag of the latest render, which is propsRef.current
  mountProps,    \* the bag of the first render, closed over by the mount effect
  phase,         \* "rendered" (first render done), "mounted" (the mount
                 \* effect has run), "unmounting" (the removal is committed,
                 \* the cleanup has not run yet), "unmounted"
  updateEffect,  \* the update effect of the latest render, while it waits to
                 \* run: the bag it closed over (props) and the bag
                 \* propsRef.current held when that render began (prev)
  view,          \* internalRef.current is the mount point (TRUE) or null
  mountedRef,    \* mountedRef.current
  settling,      \* componentDidMount of the mount effect has returned and
                 \* line 436, after the await of 435, has not run yet
  pending,       \* the componentDidMount calls suspended at their await
  player,        \* playerRef.current is the handle (TRUE) or null
  handle,        \* the player window.jwplayer(id) gives for the id of this
                 \* instance: "none", "live", "removed"
  allChannel,    \* dispatch functions attached to the handle's 'all' channel
  onceTable,     \* once-handlers registered on the handle and not yet fired
  onHandler,     \* onHandlerRef.current, NoHandler for null
  count,         \* calls made so far: setup, remove, script elements created,
                 \* and attached = on('all', fn) calls minus off('all', fn) calls
  cleared,       \* the player setter cleared the handle, which is still live
  budget,        \* direct componentDidMount calls and setter clears made so far
  others,        \* idRef.current of the other instances rendered on the page
  orphans,       \* script elements still loading whose instance has been
                 \* unmounted
  otherLoad,     \* for each of them, the bag of its first render, the bag of
                 \* its latest render and how far its mount has come:
                 \* "rendered", "loading", "resolved", "mounted", "failed"
  last           \* the latest operation and the calls it made, in order

vars ==
  << hasRuntime, jwDefaults, idIndex, issued, id, props, mountProps, phase, updateEffect,
     view, mountedRef, settling, pending, player, handle, allChannel, onceTable, onHandler,
     count, cleared, budget, others, otherLoad, orphans, last >>

\* how many calls of kind op a sequence of calls holds
RECURSIVE CountOp(_, _)
CountOp(calls, op) ==
  IF calls = << >> THEN 0
  ELSE (IF Head(calls).op = op THEN 1 ELSE 0) + CountOp(Tail(calls), op)

\* on('all', fn) calls minus off('all', fn) calls
Balance(calls) == CountOp(calls, "on") - CountOp(calls, "off")

Counted(c, calls) ==
  [c EXCEPT !.setup = @ + CountOp(calls, "setup"),
            !.remove = @ + CountOp(calls, "remove"),
            !.attached = @ + Balance(calls)]

\* the identity of a newly created function: one no live reference holds
FreshId(ch, h) ==
  CHOOSE n \in 1..(Len(ch) + 2) :
    /\ n # h.id
    /\ \A i \in 1..Len(ch) : ch[i].id # n
    /\ \A m \in 1..(n - 1) : m = h.id \/ \E i \in 1..Len(ch) : ch[i].id = m

\* ----------------------------------------------------- the player's side
\* what the player handle does with the calls it receives, by the contract
\* of the JWPlayerInstance interface: on adds a listener, off(ev, fn) removes
\* that listener, off() removes every listener, once adds a single-shot
\* listener, remove destroys the player
RemoveFn(ch, d) ==
  IF \E i \in 1..Len(ch) : ch[i].id = d
  THEN LET i == CHOOSE j \in 1..Len(ch) : ch[j].id = d
       IN  SubSeq(ch, 1, i - 1) \o SubSeq(ch, i + 1, Len(ch))
  ELSE ch

RECURSIVE Apply(_, _)
Apply(st, calls) ==
  IF calls = << >> THEN st
  ELSE LET c == Head(calls)
           nxt ==
             CASE c.op = "setup" -> [st EXCEPT !.handle = "live"]
               [] c.op = "once" ->
                    [st EXCEPT !.once = Append(@, [ev |-> c.ev, fn |-> c.fn])]
               [] c.op = "on" ->
                    [st EXCEPT !.all = Append(@, [id |-> c.d, bag |-> c.bag])]
               [] c.op = "off" -> [st EXCEPT !.all = RemoveFn(@, c.d)]
               [] c.op = "offAll" -> [st EXCEPT !.all = << >>, !.once = << >>]
               [] c.op = "remove" -> [st EXCEPT !.handle = "removed"]
               [] OTHER -> st
       IN  Apply(nxt, Tail(calls))

PlayerState == [handle |-> handle, all |-> allChannel, once |-> onceTable]

\* the record of the latest operation: its name, the calls it made, whether
\* it threw or rejected and with what, what it returned, and its argument:
\* for a script error the event the script element reported (ev), for an
\* update operation nextProps (next), for an event of the player its name
Last(op, calls, err, ret) ==
  [op |-> op, calls |-> calls, err |-> err, ret |-> ret, ev |-> "",
   next |-> << >>, name |-> << >>, prop |-> << >>, regex |-> << >>,
   id |-> [prefix |-> "", n |-> 0]]

\* the record of an operation that was passed nextProps
LastUpdate(op, calls, ret, nextProps) ==
  [Last(op, calls, "", ret) EXCEPT !.next = nextProps]

\* the player receives calls and the counters follow
Receive(calls) ==
  LET st == Apply(PlayerState, calls) IN
  /\ handle' = st.handle
  /\ allChannel' = st.all
  /\ onceTable' = st.once
  /\ count' = Counted(count, calls)

\* the player receives calls, the counters and the record follow
Perform(op, calls, err, ret) ==
  /\ Receive(calls)
  /\ last' = Last(op, calls, err, ret)

\* ------------------------------------------------------------------ loader
\* a loadPlayer that fetches the library whenever it has a url
loadPlayerPrefersUrl(url, runtime) ==
  IF ~runtime /\ ~Truthy(url) THEN "throw"
  ELSE IF Truthy(url) THEN "script"
  ELSE "resolved"

\* loadPlayer without the check for a missing runtime and a missing url
loadPlayerNoCheck(url, runtime) ==
  IF runtime THEN "resolved" ELSE "script"

\* util.ts loadPlayer: "throw" (synchronously), "resolved" (Promise.resolve())
\* or "script" (createPlayerLoadPromise: a script element is appended)
loadPlayer(url, runtime) ==
  IF ~runtime /\ ~Truthy(url) THEN "throw"
  ELSE IF runtime THEN "resolved"
  ELSE "script"

\* util.ts createPlayerLoadPromise, script.src = url: the src of the script
\* element the call appends to the body
createPlayerLoadPromise(url) == url

\* a load promise that rejects with an error of its own making
onerrorNewError(ev) == "Error"

\* util.ts createPlayerLoadPromise, script.onerror = rej: what the promise
\* rejects with when the script element reports the error event ev
onerror(ev) == ev

\* util.ts generateUniqueId: the counter after the call, and the id returned
\* an identifier made from the counter before the increment
generateUniqueIdPostIncrement(index) ==
  [index |-> index + 1, id |-> [prefix |-> "jwplayer", n |-> index]]

generateUniqueId(index) ==
  [index |-> index + 1, id |-> [prefix |-> "jwplayer", n |-> index + 1]]

\* jwplayer.tsx line 310, useRef(props.id || generateUniqueId()): the argument
\* is evaluated at every render, the reference keeps the first value
IdArgument(bag, index) ==
  IF Truthy(Get(bag, K_id))
  THEN [index |-> index, id |-> [prefix |-> Get(bag, K_id), n |-> -1]]
  ELSE generateUniqueId(index)

\* what the generateUniqueId call of line 310, if the render with bag makes
\* one, returns: nothing when the bag has a truthy id
Returned(bag, index) ==
  IF Truthy(Get(bag, K_id)) THEN << >> ELSE << generateUniqueId(index).id >>

\* --------------------------------------------------------------- component
\* a createPlayer that gets by without the mount point
createPlayerNeverThrows(mountPoint) == FALSE

\* jwplayer.tsx createPlayer, window.jwplayer(view!.id): reading id of a null
\* mount point throws a TypeError.  The mount point is null once the framework
\* has removed the component (object refs of removed elements are cleared).
createPlayerThrows(mountPoint) == ~mountPoint

\* jwplayer.tsx createPlayer: { ...window.jwDefaults, ...config }, config being
\* generateConfig of the bag of the render that made the closure
setupConfig(defaults, closure) == Spread(defaults, generateConfig(closure))

\* componentDidMount notifying the owner before the listeners are attached
MountCallsCallbackFirst(closure, current, defaults, fid, theId) ==
  << SetupCall(setupConfig(defaults, closure)) >>
  \o (IF Truthy(Get(closure, K_didMountCallback))
      THEN << LifecycleCall("didMountCallback", Get(closure, K_didMountCallback),
                            "handle", theId) >>
      ELSE << >>)
  \o OnceCalls(current, Keys(current))
  \o << OnCall(ALL, createOnEventHandler(fid, current)) >>

\* componentDidMount notifying the owner both before and after the listeners
MountCallsCallbackTwice(closure, current, defaults, fid, theId) ==
  MountCallsCallbackFirst(closure, current, defaults, fid, theId)
  \o (IF Truthy(Get(closure, K_didMountCallback))
      THEN << LifecycleCall("didMountCallback", Get(closure, K_didMountCallback),
                            "handle", theId) >>
      ELSE << >>)

\* createEventListeners storing the dispatch function without attaching it
MountCallsNoAttach(closure, current, defaults, fid, theId) ==
  << SetupCall(setupConfig(defaults, closure)) >>
  \o OnceCalls(current, Keys(current))
  \o (IF Truthy(Get(closure, K_didMountCallback))
      THEN << LifecycleCall("didMountCallback", Get(closure, K_didMountCallback),
                            "handle", theId) >>
      ELSE << >>)

\* jwplayer.tsx componentDidMount after the await: createPlayer,
\* createEventListeners (over propsRef.current), didMountCallback of the closure
MountCalls(closure, current, defaults, fid, theId) ==
  << SetupCall(setupConfig(defaults, closure)) >>
  \o OnceCalls(current, Keys(current))
  \o << OnCall(ALL, createOnEventHandler(fid, current)) >>
  \o (IF Truthy(Get(closure, K_didMountCallback))
      THEN << LifecycleCall("didMountCallback", Get(closure, K_didMountCallback),
                            "handle", theId) >>
      ELSE << >>)

\* a cleanup that detaches the listeners and leaves the player in place
UnmountCallsNoRemove(closure, hasPlayer, theId) ==
  (IF Truthy(Get(closure, K_willUnmountCallback))
   THEN << LifecycleCall("willUnmountCallback", Get(closure, K_willUnmountCallback),
                         IF hasPlayer THEN "handle" ELSE "null", theId) >>
   ELSE << >>)
  \o (IF hasPlayer THEN << OffAllCall >> ELSE << >>)

\* a cleanup that destroys the player before it detaches the listeners
UnmountCallsRemoveFirst(closure, hasPlayer, theId) ==
  (IF Truthy(Get(closure, K_willUnmountCallback))
   THEN << LifecycleCall("willUnmountCallback", Get(closure, K_willUnmountCallback),
                         IF hasPlayer THEN "handle" ELSE "null", theId) >>
   ELSE << >>)
  \o (IF hasPlayer THEN << RemoveCall, OffAllCall >> ELSE << >>)

\* a cleanup that notifies the owner only when there is a handle to pass
UnmountCallsNoCallbackOnNull(closure, hasPlayer, theId) ==
  IF hasPlayer
  THEN (IF Truthy(Get(closure, K_willUnmountCallback))
        THEN << LifecycleCall("willUnmountCallback",
                              Get(closure, K_willUnmountCallback), "handle", theId) >>
        ELSE << >>)
       \o << OffAllCall, RemoveCall >>
  ELSE << >>

\* jwplayer.tsx, cleanup of the mount effect
UnmountCalls(closure, hasPlayer, theId) ==
  (IF Truthy(Get(closure, K_willUnmountCallback))
   THEN << LifecycleCall("willUnmountCallback", Get(closure, K_willUnmountCallback),
                         IF hasPlayer THEN "handle" ELSE "null", theId) >>
   ELSE << >>)
  \o (IF hasPlayer THEN << OffAllCall, RemoveCall >> ELSE << >>)

\* an updateOnEventListener that detaches without looking at the stored function
UpdateCallsNoNullCheck(handler, hasPlayer, newHandler) ==
  IF hasPlayer THEN << OffCall(ALL, handler), OnCall(ALL, newHandler) >> ELSE << >>

\* jwplayer.tsx updateOnEventListener
UpdateCalls(handler, hasPlayer, newHandler) ==
  (IF handler # NoHandler /\ hasPlayer THEN << OffCall(ALL, handler) >> ELSE << >>)
  \o (IF hasPlayer THEN << OnCall(ALL, newHandler) >> ELSE << >>)

\* a shouldComponentUpdate that does not look at the handle first
shouldComponentUpdateNoGuard(hasPlayer, current, nextProps) ==
  IF didOnEventsChange(current, nextProps) THEN "refresh" ELSE "update"

\* a shouldComponentUpdate that refreshes the handler whatever the bags hold
shouldComponentUpdateAlwaysRefresh(hasPlayer, current, nextProps) ==
  IF ~hasPlayer THEN "skip" ELSE "refresh"

\* jwplayer.tsx shouldComponentUpdate: "skip" (no handle), "refresh" (the
\* handler is swapped, returns false) or "update" (returns true)
shouldComponentUpdate(hasPlayer, current, nextProps) ==
  IF ~hasPlayer THEN "skip"
  ELSE IF didOnEventsChange(current, nextProps) THEN "refresh"
  ELSE "update"

\* -------------------------------------------------------------------- Init
\* the state after the first render: the references exist, the id is chosen,
\* no effect has run yet
Init ==
  /\ \E page \in Pages :
       /\ hasRuntime = page.runtime
       /\ jwDefaults = page.defaults
       /\ props = page.bag
  /\ mountProps = props
  /\ idIndex = IdArgument(props, -1).index
  /\ issued = Returned(props, -1)
  /\ id = IdArgument(props, -1).id
  /\ phase = "rendered"
  /\ updateEffect = << >>
  /\ view = TRUE
  /\ mountedRef = FALSE
  /\ settling = FALSE
  /\ pending = { }
  /\ player = FALSE
  /\ handle = "none"
  /\ allChannel = << >>
  /\ onceTable = << >>
  /\ onHandler = NoHandler
  /\ count = [setup |-> 0, remove |-> 0, attached |-> 0, scripts |-> 0]
  /\ cleared = FALSE
  /\ budget = 0
  /\ others = << >>
  /\ otherLoad = << >>
  /\ orphans = 0
  /\ last = Last("init", << >>, "", "")

\* ----------------------------------------------------------------- actions
\* componentDidMount up to its await: loadPlayer(props.library).  A call that
\* throws is over; another is suspended, its promise resolved or its script
\* (with its src) loading.
\* a mount that appends no script while another script is still loading
StartMountDeduplicated(kind, closure) ==
  LET r == loadPlayer(Get(closure, K_library), hasRuntime)
      busy == \E i \in 1..Len(otherLoad) : otherLoad[i].st = "loading"
  IN
  /\ pending' = IF r = "throw" THEN pending
                ELSE pending \cup { [kind |-> kind, props |-> closure,
                                     st |-> IF r = "script" THEN "loading" ELSE r,
                                     src |-> IF r = "script"
                                             THEN createPlayerLoadPromise(
                                                    Get(closure, K_library))
                                             ELSE ""] }
  /\ count' = [count EXCEPT !.scripts = @ + (IF r = "script" /\ ~busy THEN 1 ELSE 0)]
  /\ last' = Last("componentDidMount", << >>, IF r = "throw" THEN "Error" ELSE "", "")

StartMount(kind, closure) ==
  LET r == loadPlayer(Get(closure, K_library), hasRuntime) IN
  /\ pending' = IF r = "throw" THEN pending
                ELSE pending \cup { [kind |-> kind, props |-> closure,
                                     st |-> IF r = "script" THEN "loading" ELSE r,
                                     src |-> IF r = "script"
                                             THEN createPlayerLoadPromise(
                                                    Get(closure, K_library))
                                             ELSE ""] }
  /\ count' = [count EXCEPT !.scripts = @ + (IF r = "script" THEN 1 ELSE 0)]
  /\ last' = Last("componentDidMount", << >>, IF r = "throw" THEN "Error" ELSE "", "")

\* the mount effect runs (jwplayer.tsx 433-439).  The update effect of the
\* first render runs right after it and returns at 460: mountedRef.current
\* is false until a later microtask.
MountEffect ==
  /\ phase = "rendered"
  /\ StartMount("effect", mountProps)
  /\ phase' = "mounted"
  /\ UNCHANGED << others, otherLoad, hasRuntime, jwDefaults, issued, updateEffect, orphans, idIndex, id, props, mountProps, view,
                  mountedRef, settling, player, handle, allChannel, onceTable, onHandler,
                  cleared, budget >>

\* the test surface calls componentDidMount of the latest render, one call at
\* a time
DirectMount ==
  /\ phase \in { "mounted", "unmounting" }
  /\ budget < MaxSurfaceCalls
  /\ \A c \in pending : c.kind # "direct"
  /\ StartMount("direct", props)
  /\ budget' = budget + 1
  /\ UNCHANGED << others, otherLoad, hasRuntime, jwDefaults, issued, updateEffect, orphans, idIndex, id, props, mountProps, phase,
                  view, mountedRef, settling, player, handle, allChannel, onceTable,
                  onHandler, cleared >>

\* the suspended call c resumes after its await (jwplayer.tsx 389-397); when
\* the call of the mount effect returns, the await of 435 queues line 436
Resume(c) ==
  /\ pending' = pending \ { c }
  /\ IF createPlayerThrows(view)
     THEN /\ last' = Last("resume", << >>, "TypeError", "")
          /\ UNCHANGED << mountedRef, settling, player, handle, allChannel, onceTable,
                          onHandler, count, cleared >>
     ELSE /\ player' = TRUE
          /\ onHandler' = createOnEventHandler(FreshId(allChannel, onHandler), props)
          /\ Perform("resume",
                     MountCalls(c.props, props, jwDefaults,
                                FreshId(allChannel, onHandler), id),
                     "", "")
          /\ settling' = (settling \/ c.kind = "effect")
          /\ cleared' = FALSE
          /\ UNCHANGED mountedRef

\* the microtask after the await of 435: mountedRef.current = true (436)
MountSettled ==
  /\ settling
  /\ settling' = FALSE
  /\ mountedRef' = TRUE
  /\ UNCHANGED << others, otherLoad, hasRuntime, jwDefaults, issued, updateEffect, orphans, idIndex, id, props,
                  mountProps, phase, view, pending, player, handle, allChannel,
                  onceTable, onHandler, count, cleared, budget, last >>

\* the microtask after Promise.resolve()
MountContinue(c) ==
  /\ c.st = "resolved"
  /\ Resume(c)
  /\ UNCHANGED << others, otherLoad, hasRuntime, jwDefaults, issued, updateEffect, orphans, idIndex, id, props, mountProps, phase,
                  view, budget >>

\* the script of call c loads: the runtime installs itself, onload resolves
\* the promise and the call resumes (util.ts 14)
ScriptLoad(c) ==
  /\ c.st = "loading"
  /\ hasRuntime' = TRUE
  /\ Resume(c)
  /\ UNCHANGED << others, otherLoad, jwDefaults, issued, updateEffect, orphans, idIndex, id, props, mountProps, phase, view, budget >>

\* the script of call c fails: onerror rejects with the event (util.ts 15),
\* the call is over
ScriptError(c, ev) ==
  /\ c.st = "loading"
  /\ pending' = pending \ { c }
  /\ last' = [Last("scriptError", << >>, onerror(ev), "") EXCEPT !.ev = ev]
  /\ UNCHANGED << others, otherLoad, hasRuntime, jwDefaults, issued, updateEffect, orphans, idIndex, id, props, mountProps, phase,
                  view, mountedRef, settling, player, handle, allChannel, onceTable,
                  onHandler, count, cleared, budget >>

\* a refresh that attaches the new function and keeps the old one stored
RefreshKeepsStored(op, nextProps, ret) ==
  LET newHandler == createOnEventHandler(FreshId(allChannel, onHandler), nextProps) IN
  /\ Receive(UpdateCalls(onHandler, player, newHandler))
  /\ last' = LastUpdate(op, UpdateCalls(onHandler, player, newHandler), ret, nextProps)
  /\ onHandler' = IF onHandler = NoHandler THEN newHandler ELSE onHandler

\* the refresh both updateOnEventListener callers share
Refresh(op, nextProps, ret) ==
  LET newHandler == createOnEventHandler(FreshId(allChannel, onHandler), nextProps) IN
  /\ Receive(UpdateCalls(onHandler, player, newHandler))
  /\ last' = LastUpdate(op, UpdateCalls(onHandler, player, newHandler), ret, nextProps)
  /\ onHandler' = newHandler

\* shouldComponentUpdate(nextProps) with propsRef.current = current
RunShouldComponentUpdate(op, current, nextProps) ==
  LET r == shouldComponentUpdate(player, current, nextProps) IN
  IF r = "refresh"
  THEN Refresh(op, nextProps, "false")
  ELSE /\ last' = LastUpdate(op, << >>, IF r = "update" THEN "true" ELSE "false",
                            nextProps)
       /\ UNCHANGED << handle, allChannel, onceTable, count, onHandler >>

\* a render that stores the identifier of its own bag
RenderRecomputesId(bag) ==
  /\ phase = "mounted"
  /\ updateEffect = << >>
  /\ IdArgument(bag, idIndex).index <= MaxIdIndex
  /\ props' = bag
  /\ idIndex' = IdArgument(bag, idIndex).index
  /\ issued' = issued \o Returned(bag, idIndex)
  /\ id' = IdArgument(bag, idIndex).id
  /\ updateEffect' = << [props |-> bag, prev |-> props] >>
  /\ last' = LastUpdate("render", << >>, "", bag)
  /\ UNCHANGED << others, otherLoad, hasRuntime, jwDefaults, orphans, mountProps, phase, view,
                  mountedRef, settling, pending, player, handle, allChannel, onceTable,
                  onHandler, count, cleared, budget >>

\* the owner re-renders with bag and the body runs: the useRef argument is
\* evaluated (310), propsRef.current = props (314), and the update effect of
\* this render is scheduled.  The framework runs the effects still waiting
\* before it renders again.
Render(bag) ==
  /\ phase = "mounted"
  /\ updateEffect = << >>
  /\ IdArgument(bag, idIndex).index <= MaxIdIndex
  /\ props' = bag
  /\ idIndex' = IdArgument(bag, idIndex).index
  /\ issued' = issued \o Returned(bag, idIndex)
  /\ updateEffect' = << [props |-> bag, prev |-> props] >>
  /\ last' = LastUpdate("render", << >>, "", bag)
  /\ UNCHANGED << others, otherLoad, hasRuntime, jwDefaults, orphans, id, mountProps, phase, view,
                  mountedRef, settling, pending, player, handle, allChannel, onceTable,
                  onHandler, count, cleared, budget >>

\* the update effect of the latest render runs (459-467): nothing while
\* mountedRef.current is false, otherwise shouldComponentUpdate(props) of
\* that render and, when it returns true, propsRef.current = props (466)
UpdateEffect ==
  /\ updateEffect # << >>
  /\ updateEffect' = << >>
  /\ IF mountedRef
     THEN /\ RunShouldComponentUpdate("updateEffect", props, updateEffect[1].props)
          /\ props' = IF shouldComponentUpdate(player, props, updateEffect[1].props)
                          = "update"
                       THEN updateEffect[1].props
                       ELSE props
     ELSE /\ last' = LastUpdate("updateEffect", << >>, "", updateEffect[1].props)
          /\ UNCHANGED << props, handle, allChannel, onceTable, count, onHandler >>
  /\ UNCHANGED << others, otherLoad, hasRuntime, jwDefaults, issued, orphans, idIndex, id, mountProps,
                  phase, view, mountedRef, settling, pending, player, cleared, budget >>

\* the test surface calls shouldComponentUpdate(nextProps).  The operations
\* of the imperative handle are called on a mounted instance and also between
\* the commit of its removal and the cleanup.
ShouldComponentUpdate(nextProps) ==
  /\ phase \in { "mounted", "unmounting" }
  /\ RunShouldComponentUpdate("shouldComponentUpdate", props, nextProps)
  /\ UNCHANGED << others, otherLoad, hasRuntime, jwDefaults, issued, updateEffect, orphans, idIndex, id, props, mountProps, phase,
                  view, mountedRef, settling, pending, player, cleared, budget >>

\* the test surface calls updateOnEventListener(nextProps)
UpdateOnEventListener(nextProps) ==
  /\ phase \in { "mounted", "unmounting" }
  /\ Refresh("updateOnEventListener", nextProps, "")
  /\ UNCHANGED << others, otherLoad, hasRuntime, jwDefaults, issued, updateEffect, orphans, idIndex, id, props, mountProps, phase,
                  view, mountedRef, settling, pending, player, cleared, budget >>

\* the player setter of the imperative handle, used to clear the handle
SetPlayerNull ==
  /\ phase \in { "mounted", "unmounting" }
  /\ player
  /\ player' = FALSE
  /\ cleared' = TRUE
  /\ last' = Last("setPlayer", << >>, "", "")
  /\ UNCHANGED << others, otherLoad, hasRuntime, jwDefaults, issued, updateEffect, orphans, idIndex, id, props, mountProps, phase,
                  view, mountedRef, settling, pending, handle, allChannel, onceTable,
                  onHandler, count, budget >>

\* the onHandler setter of the imperative handle, used to clear the reference
SetOnHandlerNull ==
  /\ phase \in { "mounted", "unmounting" }
  /\ onHandler # NoHandler
  /\ budget < MaxSurfaceCalls
  /\ budget' = budget + 1
  /\ onHandler' = NoHandler
  /\ last' = Last("setOnHandler", << >>, "", "")
  /\ UNCHANGED << others, otherLoad, hasRuntime, jwDefaults, issued, updateEffect, orphans, idIndex, id, props, mountProps, phase,
                  view, mountedRef, settling, pending, player, handle, allChannel, onceTable,
                  count, cleared >>

\* the framework commits the removal of the component: the element is
\* detached and internalRef.current becomes null.  The cleanup of the mount
\* effect is a passive effect and runs later; the effects still waiting are
\* run before the commit.
UnmountCommit ==
  /\ phase = "mounted"
  /\ updateEffect = << >>
  /\ phase' = "unmounting"
  /\ view' = FALSE
  /\ last' = Last("unmountCommit", << >>, "", "")
  /\ UNCHANGED << others, otherLoad, hasRuntime, jwDefaults, issued, updateEffect, orphans, idIndex, id,
                  props, mountProps, mountedRef, settling, pending, player, handle,
                  allChannel, onceTable, onHandler, count, cleared, budget >>

\* a cleanup that destroys the player and keeps the reference to it
UnmountKeepsReference ==
  /\ phase = "unmounting"
  /\ phase' = "unmounted"
  /\ Perform("unmount", UnmountCalls(mountProps, player, id), "", "")
  /\ UNCHANGED << others, otherLoad, hasRuntime, jwDefaults, issued, updateEffect, orphans, idIndex, id,
                  props, mountProps, view, mountedRef, settling, pending, player,
                  onHandler, cleared, budget >>

\* the cleanup of the mount effect runs (jwplayer.tsx 441-455)
Unmount ==
  /\ phase = "unmounting"
  /\ phase' = "unmounted"
  /\ player' = FALSE
  /\ Perform("unmount", UnmountCalls(mountProps, player, id), "", "")
  /\ UNCHANGED << others, otherLoad, hasRuntime, jwDefaults, issued, updateEffect, orphans, idIndex, id,
                  props, mountProps, view, mountedRef, settling, pending, onHandler,
                  cleared, budget >>

\* the calls the listeners of the handle make when the player emits e
RECURSIVE ChannelCalls(_, _)
ChannelCalls(ch, e) ==
  IF ch = << >> THEN << >>
  ELSE Dispatch(Head(ch).bag, e, Payload) \o ChannelCalls(Tail(ch), e)

RECURSIVE OnceFired(_, _)
OnceFired(tbl, e) ==
  IF tbl = << >> THEN << >>
  ELSE (IF Head(tbl).ev = e THEN << Invoke1(Head(tbl).fn, Payload) >> ELSE << >>)
       \o OnceFired(Tail(tbl), e)

RECURSIVE OnceLeft(_, _)
OnceLeft(tbl, e) ==
  IF tbl = << >> THEN << >>
  ELSE (IF Head(tbl).ev = e THEN << >> ELSE << Head(tbl) >>) \o OnceLeft(Tail(tbl), e)

\* the live player emits event e
Deliver(e) ==
  /\ handle = "live"
  /\ onceTable' = OnceLeft(onceTable, e)
  /\ last' = [Last("deliver", ChannelCalls(allChannel, e) \o OnceFired(onceTable, e),
                   "", "") EXCEPT !.name = e]
  /\ UNCHANGED << others, otherLoad, hasRuntime, jwDefaults, issued, updateEffect, orphans, idIndex, id, props, mountProps, phase,
                  view, mountedRef, settling, pending, player, handle, allChannel, onHandler,
                  count, cleared, budget >>

Next ==
  \/ MountEffect
  \/ \E c \in pending : MountContinue(c)
  \/ MountSettled
  \/ \E c \in pending : ScriptLoad(c)
  \/ \E c \in pending, ev \in ErrorEvents : ScriptError(c, ev)
  \/ \E bag \in RenderBags : Render(bag)
  \/ UpdateEffect
  \/ \E bag \in NextBags : ShouldComponentUpdate(bag)
  \/ \E bag \in NextBags : UpdateOnEventListener(bag)
  \/ SetPlayerNull
  \/ UnmountCommit
  \/ Unmount
  \/ \E e \in Events : Deliver(e)

\* the component driven by the framework, the owner, the player and the
\* update operations of the imperative handle
Spec == Init /\ [][Next]_vars

\* shouldComponentUpdate(nextProps) called through a reference to the
\* imperative handle that was kept beyond the unmount
LateShouldComponentUpdate(nextProps) ==
  /\ phase = "unmounted"
  /\ RunShouldComponentUpdate("shouldComponentUpdate", props, nextProps)
  /\ UNCHANGED << others, otherLoad, hasRuntime, jwDefaults, issued, updateEffect, orphans, idIndex, id, props,
                  mountProps, phase, view, mountedRef, settling, pending, player, cleared,
                  budget >>

\* updateOnEventListener(nextProps) called the same way
LateUpdateOnEventListener(nextProps) ==
  /\ phase = "unmounted"
  /\ Refresh("updateOnEventListener", nextProps, "")
  /\ UNCHANGED << others, otherLoad, hasRuntime, jwDefaults, issued, updateEffect, orphans, idIndex, id, props,
                  mountProps, phase, view, mountedRef, settling, pending, player, cleared,
                  budget >>

NextLate ==
  \/ Next
  \/ \E bag \in NextBags : LateShouldComponentUpdate(bag)
  \/ \E bag \in NextBags : LateUpdateOnEventListener(bag)

\* the component, with the update operations also called after the unmount
SpecLate == Init /\ [][NextLate]_vars

\* the outcome of a loader arrives and its suspended call is taken up: among
\* the steps of the component these are the continuation of a resolved
\* promise, the load of a script element and its error
LoaderSettles == \E c \in pending : pending' = pending \ { c }

\* the same behaviours, the loader being fair: microtasks run and the browser
\* reports the fate of every script element
SpecLive == Spec /\ WF_pending(LoaderSettles) /\ WF_settling(MountSettled)

\* the pages the test surface is explored on
SurfacePages == { Page(TRUE, D_none, B_play1), Page(FALSE, D_some, B_play2) }

InitSurface == Init /\ Page(hasRuntime, jwDefaults, props) \in SurfacePages

\* every step of Next but the events of the player, which change the
\* once-handlers left and nothing that a mount or update operation reads
NextQuiet ==
  \/ MountEffect
  \/ \E c \in pending : MountContinue(c)
  \/ MountSettled
  \/ \E c \in pending : ScriptLoad(c)
  \/ \E c \in pending, ev \in ErrorEvents : ScriptError(c, ev)
  \/ \E bag \in RenderBags : Render(bag)
  \/ UpdateEffect
  \/ \E bag \in NextBags : ShouldComponentUpdate(bag)
  \/ \E bag \in NextBags : UpdateOnEventListener(bag)
  \/ SetPlayerNull
  \/ UnmountCommit
  \/ Unmount

NextRemount ==
  \/ NextQuiet
  \/ DirectMount

\* the component with the test surface also calling componentDidMount again
SpecRemount == InitSurface /\ [][NextRemount]_vars

NextSetter ==
  \/ NextQuiet
  \/ SetOnHandlerNull

\* the component with the test surface also clearing the stored dispatch
\* reference
SpecSetter == InitSurface /\ [][NextSetter]_vars

NextSurface ==
  \/ Next
  \/ DirectMount
  \/ SetOnHandlerNull

\* the same, with the test surface also calling componentDidMount again and
\* clearing the stored dispatch reference
SpecSurface == InitSurface /\ [][NextSurface]_vars

\* ------------------------------------------- the functions on their own
\* the properties the bags below are made of: handlers that are functions
\* and that are not, a catch-all, a once-handler, an unsupported property
PureEntries ==
  { Entry(K_onPlay, v) : v \in { "f1", "f2", "3" } }
  \cup { Entry(K_onAll, v) : v \in { "a1", "f1" } }
  \cup { Entry(K_unsupported, v) : v \in { "3", "4" } }
  \cup { Entry(K_onPause, "f1"), Entry(K_oncePause, "g1") }

\* every bag of at most MaxBagLen of these properties, in every order
PureBags ==
  UNION { { b \in [1..n -> PureEntries] :
              \A i, j \in 1..n : b[i].k = b[j].k => i = j } : n \in 0..MaxBagLen }

\* event names the dispatch function is invoked with
E_empty == << >>

PureEvents == { E_play, E_pause, ALL }

\* the names the all-listener is called with, the empty string among them
DeliverEvents == PureEvents \cup { E_empty }

\* the first render with any of the bags
InitBags(bags) ==
  /\ hasRuntime = TRUE
  /\ jwDefaults = D_none
  /\ props \in bags
  /\ mountProps = props
  /\ idIndex = IdArgument(props, -1).index
  /\ issued = Returned(props, -1)
  /\ id = IdArgument(props, -1).id
  /\ phase = "rendered"
  /\ updateEffect = << >>
  /\ view = TRUE
  /\ mountedRef = FALSE
  /\ settling = FALSE
  /\ pending = { }
  /\ player = FALSE
  /\ handle = "none"
  /\ allChannel = << >>
  /\ onceTable = << >>
  /\ onHandler = NoHandler
  /\ count = [setup |-> 0, remove |-> 0, attached |-> 0, scripts |-> 0]
  /\ cleared = FALSE
  /\ budget = 0
  /\ others = << >>
  /\ otherLoad = << >>
  /\ orphans = 0
  /\ last = Last("init", << >>, "", "")

InitPure == InitBags(PureBags)

\* every bag of at most n of the entries, one value per name, in every order
BagsOf(entries, n) ==
  UNION { { b \in [1..m -> entries] : \A i, j \in 1..m : b[i].k = b[j].k => i = j }
          : m \in 0..n }

\* the properties of the bags that are mounted and then updated
UpdateEntries ==
  { Entry(K_onPlay, v) : v \in { "f1", "3" } }
  \cup { Entry(K_oncePause, v) : v \in { "g1", "g2", "3" } }
  \cup { Entry(K_onAll, v) : v \in { "a1", "3" } }
  \cup { Entry(K_unsupported, "3") }

UpdateBags == BagsOf(UpdateEntries, MaxBagLen)

InitUpdate == InitBags(UpdateBags)

\* createOnEventHandler(props)(name, Payload); the functions being pure, a
\* behaviour applies one of them once to its bag
CallDispatch(name) ==
  /\ last.op = "init"
  /\ last' = [Last("dispatch", Dispatch(props, name, Payload), "", "")
                EXCEPT !.name = name]
  /\ UNCHANGED << others, otherLoad, hasRuntime, jwDefaults, issued, updateEffect, orphans, idIndex, id, props, mountProps, phase,
                  view, mountedRef, settling, pending, player, handle, allChannel, onceTable,
                  onHandler, count, cleared, budget >>

\* didOnEventsChange(nextProps) of the imperative handle
CallDidOnEventsChange(nextProps) ==
  /\ last.op = "init"
  /\ last' = LastUpdate("didOnEventsChange", << >>,
                        IF didOnEventsChange(props, nextProps) THEN "true" ELSE "false",
                        nextProps)
  /\ UNCHANGED << others, otherLoad, hasRuntime, jwDefaults, issued, updateEffect, orphans, idIndex, id, props, mountProps, phase,
                  view, mountedRef, settling, pending, player, handle, allChannel, onceTable,
                  onHandler, count, cleared, budget >>

\* the property names classified
PureNames ==
  { K_onPlay, K_onPause, K_onPlaylistComplete, K_onAll, K_oncePause,
    K_oncePlaylistComplete, K_onceReady, K_playlist, K_library, K_on, K_online }

\* getHandlerName(prop, regex) of util.ts
CallGetHandlerName(prop, regex) ==
  /\ last.op = "init"
  /\ last' = [Last("getHandlerName", << >>, "", "")
                EXCEPT !.name = getHandlerName(prop, regex),
                       !.prop = prop, !.regex = regex]
  /\ UNCHANGED << others, otherLoad, hasRuntime, jwDefaults, issued, updateEffect, orphans, idIndex, id, props, mountProps, phase,
                  view, mountedRef, settling, pending, player, handle, allChannel, onceTable,
                  onHandler, count, cleared, budget >>

NextPure ==
  \/ \E name \in PureEvents : CallDispatch(name)
  \/ \E nextProps \in PureBags : CallDidOnEventsChange(nextProps)
  \/ \E prop \in PureNames, regex \in { ON_REGEX, ONCE_REGEX } :
        CallGetHandlerName(prop, regex)

\* the dispatch function and the comparison applied to every bag
SpecPure == InitPure /\ [][NextPure]_vars

\* ------------------------------------------------------- several instances
\* the bags the other instances are rendered with
B_custom == << Entry(K_id, "custom"), Entry(K_library, "url") >>

OtherBags == { B_play1, B_custom }

\* the sequence s without its i-th element
RemoveAt(s, i) == SubSeq(s, 1, i - 1) \o SubSeq(s, i + 1, Len(s))

\* the first render of another instance: line 310 stores the id, the mount
\* effect will close over the bag
OtherFirstRender(bag) ==
  /\ Len(others) < MaxOthers
  /\ IdArgument(bag, idIndex).index <= MaxIdIndex
  /\ idIndex' = IdArgument(bag, idIndex).index
  /\ issued' = issued \o Returned(bag, idIndex)
  /\ others' = Append(others, IdArgument(bag, idIndex).id)
  /\ otherLoad' = Append(otherLoad, [st |-> "rendered", mountProps |-> bag,
                                      props |-> bag])
  /\ last' = [LastUpdate("otherFirstRender", << >>, "", bag)
                EXCEPT !.id = IdArgument(bag, idIndex).id]
  /\ UNCHANGED << hasRuntime, jwDefaults, updateEffect, orphans, id, props, mountProps, phase, view,
                  mountedRef, settling, pending, player, handle, allChannel,
                  onceTable, onHandler, count, cleared, budget >>

\* a later render of the i-th other instance: line 310 evaluates the
\* argument again, the reference keeps its value; propsRef.current is the new
\* bag (314); the update effect compares the bag with itself and makes no call.
\* The mount effect of an instance has run before the instance is rendered
\* again.
OtherRender(i, bag) ==
  /\ otherLoad[i].st # "rendered"
  /\ IdArgument(bag, idIndex).index <= MaxCalls
  /\ idIndex' = IdArgument(bag, idIndex).index
  /\ issued' = issued \o Returned(bag, idIndex)
  /\ otherLoad' = [otherLoad EXCEPT ![i].props = bag]
  /\ last' = [LastUpdate("otherRender", << >>, "", bag) EXCEPT !.id = others[i]]
  /\ UNCHANGED << others, hasRuntime, jwDefaults, updateEffect, orphans, id, props, mountProps, phase,
                  view, mountedRef, settling, pending, player, handle, allChannel,
                  onceTable, onHandler, count, cleared, budget >>

\* the player of the i-th other instance receives calls: window.jwplayer(id)
\* is one handle per id, so an instance rendered with the id of this one
\* calls this one's handle; the handle of any other id is not in the state
OtherReceive(i, calls) ==
  IF others[i] = id
  THEN Receive(calls)
  ELSE UNCHANGED << handle, allChannel, onceTable, count >>

\* the i-th other instance is unmounted: the cleanup of its mount effect
\* (442-455) runs, with off() and remove() when it has a player; a script
\* element it appended stays in the document and goes on loading.  The
\* commit of its removal is not a step of its own: it changes nothing this
\* instance can see, and a continuation of the other instance that runs
\* after it throws and makes no call, as it does after the cleanup.  The
\* mount effect of an instance has run before the instance is removed.
OtherUnmount(i) ==
  /\ otherLoad[i].st # "rendered"
  /\ others' = RemoveAt(others, i)
  /\ otherLoad' = RemoveAt(otherLoad, i)
  /\ orphans' = orphans + (IF otherLoad[i].st = "loading" THEN 1 ELSE 0)
  /\ OtherReceive(i, UnmountCalls(otherLoad[i].mountProps,
                                  otherLoad[i].st = "mounted", others[i]))
  /\ last' = [Last("otherUnmount", << >>, "", "") EXCEPT !.id = others[i]]
  /\ UNCHANGED << hasRuntime, jwDefaults, issued, updateEffect, idIndex, id, props, mountProps, phase,
                  view, mountedRef, settling, pending, player, onHandler, cleared,
                  budget >>

\* the mount effect of the i-th other instance runs up to its await:
\* loadPlayer(props.library)
OtherMountEffect(i) ==
  LET r == loadPlayer(Get(otherLoad[i].mountProps, K_library), hasRuntime) IN
  /\ otherLoad[i].st = "rendered"
  /\ count.scripts + count.setup < MaxOthers
  /\ otherLoad' = [otherLoad EXCEPT ![i].st = IF r = "throw" THEN "failed"
                                              ELSE IF r = "script" THEN "loading"
                                              ELSE "resolved"]
  /\ count' = [count EXCEPT !.scripts = @ + (IF r = "script" THEN 1 ELSE 0)]
  /\ last' = [Last("otherMount", << >>, IF r = "throw" THEN "Error" ELSE "", "")
                EXCEPT !.id = others[i]]
  /\ UNCHANGED << others, hasRuntime, jwDefaults, issued, updateEffect, orphans, idIndex, id, props, mountProps,
                  phase, view, mountedRef, settling, pending, player, handle,
                  allChannel, onceTable, onHandler, cleared, budget >>

\* componentDidMount of the i-th other instance after its await (389-397):
\* createPlayer, createEventListeners over its latest bag, didMountCallback
OtherResume(i) ==
  /\ otherLoad' = [otherLoad EXCEPT ![i].st = "mounted"]
  /\ OtherReceive(i, MountCalls(otherLoad[i].mountProps, otherLoad[i].props,
                                jwDefaults, FreshId(allChannel, onHandler),
                                others[i]))

\* the microtask after Promise.resolve() of the i-th other instance
OtherMountContinue(i) ==
  /\ otherLoad[i].st = "resolved"
  /\ OtherResume(i)
  /\ last' = [Last("otherMountContinue", << >>, "", "") EXCEPT !.id = others[i]]
  /\ UNCHANGED << others, hasRuntime, jwDefaults, issued, updateEffect, orphans, idIndex, id, props, mountProps,
                  phase, view, mountedRef, settling, pending, player, onHandler,
                  cleared, budget >>

\* the script of the i-th other instance loads: the runtime installs itself
\* and the call resumes
OtherScriptLoad(i) ==
  /\ otherLoad[i].st = "loading"
  /\ hasRuntime' = TRUE
  /\ OtherResume(i)
  /\ last' = [Last("otherScriptLoad", << >>, "", "") EXCEPT !.id = others[i]]
  /\ UNCHANGED << others, jwDefaults, issued, updateEffect, orphans, idIndex, id, props, mountProps, phase, view,
                  mountedRef, settling, pending, player, onHandler, cleared,
                  budget >>

\* the script of an instance that was unmounted meanwhile loads: the runtime
\* installs itself; the continuation of that instance (389-397) throws at the
\* null mount point and makes no call
OrphanScriptLoad ==
  /\ orphans > 0
  /\ orphans' = orphans - 1
  /\ hasRuntime' = TRUE
  /\ UNCHANGED << others, otherLoad, jwDefaults, issued, updateEffect, idIndex, id, props, mountProps,
                  phase, view, mountedRef, settling, pending, player, handle,
                  allChannel, onceTable, onHandler, count, cleared, budget, last >>

\* generateUniqueId() of util.ts, called on its own
CallGenerateUniqueId ==
  /\ generateUniqueId(idIndex).index <= MaxCalls
  /\ idIndex' = generateUniqueId(idIndex).index
  /\ issued' = Append(issued, generateUniqueId(idIndex).id)
  /\ last' = [Last("generateUniqueId", << >>, "", "")
                EXCEPT !.id = generateUniqueId(idIndex).id]
  /\ UNCHANGED << others, otherLoad, hasRuntime, jwDefaults, updateEffect, orphans, id, props, mountProps, phase,
                  view, mountedRef, settling, pending, player, handle, allChannel, onceTable,
                  onHandler, count, cleared, budget >>

\* the page the identifiers are followed on: no runtime yet, the instance
\* rendered without an id
IdsPages == { Page(FALSE, D_none, B_play1) }

InitIds == Init /\ Page(hasRuntime, jwDefaults, props) \in IdsPages

NextIds ==
  \/ MountEffect
  \/ \E c \in pending : MountContinue(c)
  \/ \E c \in pending : ScriptLoad(c)
  \/ MountSettled
  \/ UnmountCommit
  \/ Unmount
  \/ \E bag \in OtherBags : OtherFirstRender(bag)
  \/ \E i \in 1..Len(others) : OtherRender(i, otherLoad[i].props)
  \/ \E i \in 1..Len(others) : OtherUnmount(i)
  \/ \E i \in 1..Len(others) : OtherMountEffect(i)
  \/ \E i \in 1..Len(others) : OtherMountContinue(i)
  \/ \E i \in 1..Len(others) : OtherScriptLoad(i)
  \/ OrphanScriptLoad
  \/ CallGenerateUniqueId

\* one instance mounted and unmounted, with other instances rendered,
\* mounted, re-rendered (each with the bag it holds) and removed around it
SpecIds == InitIds /\ [][NextIds]_vars

\* the pages several instances are mounted on
LoadPages == { Page(FALSE, D_none, B_play1), Page(TRUE, D_some, B_mixed) }

InitLoad == Init /\ Page(hasRuntime, jwDefaults, props) \in LoadPages

NextLoad ==
  \/ MountEffect
  \/ \E c \in pending : MountContinue(c)
  \/ \E c \in pending : ScriptLoad(c)
  \/ MountSettled
  \/ UnmountCommit
  \/ Unmount
  \/ \E bag \in OtherBags : OtherFirstRender(bag)
  \/ \E i \in 1..Len(others) : OtherUnmount(i)
  \/ \E i \in 1..Len(others) : OtherMountEffect(i)
  \/ \E i \in 1..Len(others) : OtherMountContinue(i)
  \/ \E i \in 1..Len(others) : OtherScriptLoad(i)
  \/ OrphanScriptLoad

\* several instances on one page, each rendered once and running its own
\* mount effect and cleanup
SpecLoad == InitLoad /\ [][NextLoad]_vars

\* shouldComponentUpdate(nextProps) right after the mount has completed
UpdateAfterMount(nextProps) ==
  /\ last.op = "resume"
  /\ ShouldComponentUpdate(nextProps)

\* the player emits an event right after the mount has completed
DeliverAfterMount(e) ==
  /\ last.op = "resume"
  /\ Deliver(e)

NextUpdate ==
  \/ MountEffect
  \/ \E c \in pending : MountContinue(c)
  \/ MountSettled
  \/ \E e \in DeliverEvents : DeliverAfterMount(e)
  \/ \E nextProps \in UpdateBags : UpdateAfterMount(nextProps)

\* every bag mounted on a page with the runtime, then compared with every bag
SpecUpdate == InitUpdate /\ [][NextUpdate]_vars

\* ------------------------------------------------------------------ claims
\* a step that writes the record of the latest operation: every step but
\* line 436 and the load of the script of an instance no longer there,
\* which make no call and leave the record as it is
Recorded == ~(settling /\ ~settling') /\ orphans' >= orphans

\* C1: while the instance is mounted with a non-null handle, every re-render
\* with a bag whose on* handlers differ from the previous bag's detaches the
\* attached dispatch function and attaches one built from the new bag, so
\* that a 'play' event then reaches the new bag's handlers and not the old.
C1_RerenderSwapsDispatch ==
  [][ ( /\ Recorded /\ last'.op = "updateEffect"
        /\ mountedRef /\ player
        /\ didOnEventsChange(updateEffect[1].prev, updateEffect[1].props) )
      => ( /\ CountOp(last'.calls, "off") = 1
           /\ CountOp(last'.calls, "on") = 1
           /\ onHandler'.bag = props'
           /\ ChannelCalls(allChannel', E_play) = Dispatch(props', E_play, Payload) )
    ]_vars

\* C2: in every reachable state, componentDidMount called again on a mounted
\* instance included, at most one dispatch function is attached to the
\* handle's 'all' channel.
C2_AtMostOneDispatch == Len(allChannel) <= 1

\* C3: after a completed mount transition, and after every
\* updateOnEventListener call made with a non-null handle, the on('all', fn)
\* calls minus the off('all', fn) calls of the instance's lifetime are 1.
C3_AttachMinusDetachIsOne ==
  ( /\ player
    /\ \/ last.op = "resume" /\ last.err = ""
       \/ last.op = "updateOnEventListener" )
  => count.attached = 1

\* C4: when the removal of the instance is committed while the loader is
\* pending, the later resolution does nothing to it, whether it comes before
\* the cleanup of the mount effect has run or after it: no setup, the handle
\* stays null, no once or on listener is attached, didMountCallback is not
\* invoked.
C4_LateResolutionIsNoOp ==
  /\ []( ( /\ phase \in { "unmounting", "unmounted" }
           /\ pending # { } \/ last.op = "resume" )
         => ( /\ count.setup = 0
              /\ handle = "none"
              /\ ~player
              /\ allChannel = << >>
              /\ onceTable = << >>
              /\ count.attached = 0
              /\ last.op = "resume" => last.calls = << >> ) )
  /\ [][ ( phase \in { "unmounting", "unmounted" } /\ count.setup = 0 )
         => ( /\ count'.setup = 0
              /\ handle' = "none"
              /\ ~player'
              /\ allChannel' = << >>
              /\ onceTable' = << >>
              /\ count'.attached = 0
              /\ CountOp(last'.calls, "didMountCallback") = 0 ) ]_vars

\* the loader resolves between the commit of the removal and the cleanup
C4_Witness ==
  /\ phase = "unmounting"
  /\ last.op = "resume"
  /\ hasRuntime
  /\ pending = { }

\* the loader resolves after the cleanup
C4_LateWitness ==
  /\ phase = "unmounted"
  /\ last.op = "resume"
  /\ hasRuntime
  /\ pending = { }

\* C5: the handle the setup call of the instance has created is destroyed by
\* remove() exactly once, by the unmount of the instance and never before
\* it: as long as the instance holds the handle it is not destroyed, the
\* cleanup of an instance that holds it calls remove() once and leaves it
\* destroyed, and nothing else destroys it.
C5_OwnHandleRemovedAtUnmount ==
  /\ [](player => handle = "live")
  /\ [][ (player /\ Recorded /\ last'.op = "unmount")
         => ( /\ CountOp(last'.calls, "remove") = 1
              /\ count'.remove = count.remove + 1
              /\ handle' = "removed" ) ]_vars
  /\ [][ (player /\ (handle' = "removed" \/ count'.remove > count.remove))
         => (Recorded /\ last'.op = "unmount") ]_vars
  /\ []((phase = "unmounted" /\ count.setup > 0 /\ others = << >> /\ ~cleared)
        => (handle = "removed" /\ count.remove = 1))

\* the handle of the instance is destroyed while the instance is mounted
C5_RemovedWhileMounted ==
  /\ phase = "mounted"
  /\ player
  /\ handle = "removed"
  /\ last.op = "otherUnmount"

\* the value of option k in { ...defaults, ...config object, ...whitelisted
\* properties, isReactComponent: true }, the later layer winning
EffectiveValue(defaults, bag, k) ==
  IF k = K_isReactComponent THEN "true"
  ELSE IF k \in configProps /\ Has(bag, k) THEN Get(bag, k)
  ELSE IF Get(bag, K_config) \in ObjectRefs /\ Has(ObjectAt(Get(bag, K_config)), k)
       THEN Get(ObjectAt(Get(bag, K_config)), k)
  ELSE Get(defaults, k)

Names ==
  { K_library, K_playlist, K_width, K_height, K_config, K_id, K_unsupported,
    K_isReactComponent, K_onPlay, K_onPause, K_onAll, K_oncePause,
    K_didMountCallback, K_willUnmountCallback }

\* C6: a mount transition makes its calls in this order: setup, once, with
\* the Effective Configuration and after the loader has resolved, then the
\* once() registrations, then on('all', dispatch), then didMountCallback.
C6_MountOrder ==
  /\ count.setup > 0 => hasRuntime
  /\ pending # { } => count.setup = 0
  /\ (last.op = "resume" /\ last.err = "") =>
       LET cs == last.calls
           n == Len(cs)
           onAt == CHOOSE i \in 1..n : cs[i].op = "on"
       IN  /\ n >= 2
           /\ cs[1].op = "setup"
           /\ CountOp(cs, "setup") = 1
           /\ \A k \in Names :
                /\ Get(cs[1].cfg, k) = EffectiveValue(jwDefaults, mountProps, k)
                /\ Has(cs[1].cfg, k) <=>
                     EffectiveValue(jwDefaults, mountProps, k) # Undefined
           /\ CountOp(cs, "on") = 1
           /\ cs[onAt].ev = ALL
           /\ cs[onAt].d = onHandler.id
           /\ \A i \in 2..n :
                /\ cs[i].op = "once" => i < onAt
                /\ cs[i].op \in { "once", "on", "didMountCallback" }
                /\ cs[i].op = "didMountCallback" =>
                     /\ i = n
                     /\ onAt < i
                     /\ cs[i].player = "handle"
                     /\ cs[i].id = id
           /\ Truthy(Get(mountProps, K_didMountCallback)) =>
                /\ cs[n].op = "didMountCallback"
                /\ cs[n].fn = Get(mountProps, K_didMountCallback)
           /\ CountOp(cs, "once") = Len(OnceCalls(props, Keys(props)))

C6_Witness ==
  /\ last.op = "resume"
  /\ last.err = ""
  /\ CountOp(last.calls, "once") = 1
  /\ CountOp(last.calls, "didMountCallback") = 1
  /\ Len(last.calls) = 4

\* C7: an unmount with a non-null handle invokes willUnmountCallback (if the
\* bag has one) with the live handle and the id, then calls off() with no
\* arguments, then remove(), and clears the handle.
C7_UnmountOrder ==
  ( /\ last.op = "unmount"
    /\ count.setup > 0
    /\ ~cleared )
  => LET cs == last.calls
         n == Len(cs)
     IN  /\ n >= 2
         /\ cs[n - 1] = OffAllCall
         /\ cs[n] = RemoveCall
         /\ CountOp(cs, "offAll") = 1
         /\ CountOp(cs, "remove") = 1
         /\ n = (IF Truthy(Get(mountProps, K_willUnmountCallback)) THEN 3 ELSE 2)
         /\ n = 3 =>
              cs[1] = LifecycleCall("willUnmountCallback",
                                    Get(mountProps, K_willUnmountCallback),
                                    "handle", id)
         /\ ~player
         /\ handle = "removed"

C7_Witness ==
  /\ last.op = "unmount"
  /\ count.setup > 0
  /\ ~cleared
  /\ Len(last.calls) = 3

\* C8: an unmount with a null handle does not throw, calls neither off nor
\* remove, and invokes willUnmountCallback (if the bag has one) once, with
\* player null and the id.
C8_UnmountWithoutHandle ==
  ( /\ last.op = "unmount"
    /\ count.setup = 0 \/ cleared )
  => /\ last.err = ""
     /\ CountOp(last.calls, "off") = 0
     /\ CountOp(last.calls, "offAll") = 0
     /\ CountOp(last.calls, "remove") = 0
     /\ count.remove = 0
     /\ last.calls =
          (IF Truthy(Get(mountProps, K_willUnmountCallback))
           THEN << LifecycleCall("willUnmountCallback",
                                 Get(mountProps, K_willUnmountCallback), "null", id) >>
           ELSE << >>)

C8_Witness ==
  /\ last.op = "unmount"
  /\ cleared
  /\ handle = "live"
  /\ Len(last.calls) = 1

\* C9: with no runtime on the page and no library url, loadPlayer throws
\* before a script element is created, and the mount goes no further: the
\* handle stays null, no setup, no listener, no didMountCallback.
C9_MissingLibraryThrows ==
  ( /\ phase # "rendered"
    /\ ~Truthy(Get(mountProps, K_library))
    /\ ~hasRuntime )
  => /\ count.scripts = 0
     /\ pending = { }
     /\ last.op = "componentDidMount" => last.err = "Error" /\ last.calls = << >>
     /\ count.setup = 0
     /\ handle = "none"
     /\ ~player
     /\ ~mountedRef
     /\ allChannel = << >>
     /\ onceTable = << >>
     /\ count.attached = 0

C9_Witness ==
  /\ last.op = "componentDidMount"
  /\ last.err = "Error"
  /\ phase = "mounted"

\* C10: when the script element reports an error the load promise rejects
\* with that event, and the mount goes no further: the handle stays null,
\* setup, once and on are not called, didMountCallback is not invoked, and
\* no other script is requested.
C10_ScriptErrorAborts ==
  /\ last.op = "scriptError" =>
       /\ last.ev \in ErrorEvents
       /\ last.err = last.ev
       /\ last.calls = << >>
  /\ ( /\ phase # "rendered"
       /\ pending = { }
       /\ ~hasRuntime )
     => /\ count.scripts = (IF Truthy(Get(mountProps, K_library)) THEN 1 ELSE 0)
        /\ count.setup = 0
        /\ handle = "none"
        /\ ~player
        /\ ~mountedRef
        /\ allChannel = << >>
        /\ onceTable = << >>
        /\ count.attached = 0

C10_Witness ==
  /\ last.op = "scriptError"
  /\ last.err = "ev2"
  /\ count.scripts = 1
  /\ pending = { }

\* C11: loadPlayer creates no script element when the runtime is present,
\* with or without a url, and its promise is resolved at once; with no
\* runtime and a url it creates one script element with that url as src,
\* and the call goes on only after the script has loaded.
C11_ScriptOnlyWithoutRuntime ==
  /\ \A c \in pending :
       /\ c.st = "resolved" => c.src = ""
       /\ c.st = "loading" =>
            /\ c.src = Get(c.props, K_library)
            /\ Truthy(c.src)
            /\ count.setup = 0
            /\ ~hasRuntime
  /\ (last.op = "componentDidMount" /\ last.err = "") =>
       /\ pending # { }
       /\ hasRuntime =>
            /\ count.scripts = 0
            /\ \A c \in pending : c.st = "resolved"
       /\ ~hasRuntime =>
            /\ count.scripts = 1
            /\ \A c \in pending : c.st = "loading"
  /\ count.scripts <= 1
  /\ (count.scripts = 1 /\ count.setup > 0) => hasRuntime

C11_Witness ==
  /\ last.op = "resume"
  /\ last.err = ""
  /\ count.scripts = 1
  /\ count.setup = 1
  /\ Get(mountProps, K_library) = "url"

\* String.prototype.toUpperCase on one character
ToUpperCase(c) == IF IsUpper(c) THEN c ELSE Alphabet[Code(c) - NUpper]

\* the property that names the fire-every handler of event e: on, then e
\* with its first letter in upper case
OnPropertyOf(e) == << "o", "n", ToUpperCase(e[1]) >> \o Tail(e)

\* how many times call c occurs among calls
RECURSIVE Occurrences(_, _)
Occurrences(calls, c) ==
  IF calls = << >> THEN 0
  ELSE (IF Head(calls) = c THEN 1 ELSE 0) + Occurrences(Tail(calls), c)

\* C12: invoked with (e, p), the dispatch function of a bag invokes each
\* function-valued on<E> property named after e once with (p), each
\* function-valued onAll property once with (e, p), and nothing else.
C12_DispatchExact ==
  last.op = "dispatch" =>
    LET e == last.name
        named == IF Get(props, OnPropertyOf(e)) \in Funcs
                 THEN << Invoke1(Get(props, OnPropertyOf(e)), Payload) >> ELSE << >>
        catchAll == IF Get(props, K_onAll) \in Funcs
                    THEN << Invoke2(Get(props, K_onAll), e, Payload) >> ELSE << >>
    IN  /\ \A i \in 1..Len(named) : Occurrences(last.calls, named[i]) = 1
        /\ \A i \in 1..Len(catchAll) : Occurrences(last.calls, catchAll[i]) = 1
        /\ Len(last.calls) = Len(named) + Len(catchAll)

C12_Witness ==
  /\ last.op = "dispatch"
  /\ last.name = ALL
  /\ Get(props, K_onAll) = "a1"
  /\ Len(last.calls) = 2

\* C13: after updateOnEventListener(nextProps) on an instance with a handle,
\* an event the player emits reaches the handlers of nextProps and no
\* handler that only an earlier bag had.
C13_OnlyNextPropsHandlers ==
  ( /\ last.op = "updateOnEventListener"
    /\ player )
  => \A e \in Events :
       ChannelCalls(allChannel, e) = Dispatch(last.next, e, Payload)

\* the names of a bag that follow the fire-every pattern: on, then a
\* capitalized event name
OnNames(bag) ==
  { bag[i].k : i \in { j \in 1..Len(bag) :
                         /\ Len(bag[j].k) > 2
                         /\ SubSeq(bag[j].k, 1, 2) = << "o", "n" >>
                         /\ IsUpper(bag[j].k[3]) } }

\* C14: didOnEventsChange(next) returns false exactly when the current and
\* the next bag have the same set of fire-every names and each such name
\* has the identical value in both; no other property matters.
C14_ChangeIffHandlersDiffer ==
  last.op = "didOnEventsChange" =>
    ( last.ret = "false"
      <=> ( /\ OnNames(props) = OnNames(last.next)
            /\ \A k \in OnNames(props) : Get(props, k) = Get(last.next, k) ) )

C14_Witness ==
  /\ last.op = "didOnEventsChange"
  /\ last.ret = "false"
  /\ Cardinality(OnNames(props)) = 2
  /\ Keys(props) # Keys(last.next)

\* the fire-every handlers of two bags are the same names with the same values
SameHandlers(a, b) ==
  /\ OnNames(a) = OnNames(b)
  /\ \A k \in OnNames(a) : Get(a, k) = Get(b, k)

\* C15: shouldComponentUpdate(next) returns false when the handle is null;
\* otherwise, when the on* handlers of next differ from those of the current
\* bag, it refreshes the handler once, detaching the stored dispatch function
\* if there is one and then attaching a new one built from next, and returns
\* false; otherwise it returns true and makes no call.
C15_ShouldComponentUpdateRefresh ==
  [][ ( Recorded /\ last'.op = "shouldComponentUpdate" )
      => IF ~player
         THEN last'.ret = "false" /\ last'.calls = << >>
         ELSE IF ~SameHandlers(props, last'.next)
         THEN /\ last'.ret = "false"
              /\ last'.calls =
                   (IF onHandler = NoHandler THEN << >>
                    ELSE << OffCall(ALL, onHandler) >>)
                   \o << OnCall(ALL, onHandler') >>
              /\ onHandler'.bag = last'.next
              /\ onHandler'.id # onHandler.id
         ELSE last'.ret = "true" /\ last'.calls = << >>
    ]_vars

\* the refresh of shouldComponentUpdate after the stored reference was
\* cleared: the on call alone
C15_Witness ==
  /\ last.op = "shouldComponentUpdate"
  /\ player
  /\ last.ret = "false"
  /\ last.calls = << OnCall(ALL, onHandler) >>
  /\ Get(last.next, K_onPlay) = "f2"

\* C15 as stated: shouldComponentUpdate(next) returns false when the handle
\* is null; otherwise, when the on* handlers differ, it makes exactly one
\* off('all', old) followed by one on('all', new) and returns false;
\* otherwise it returns true.
C15_ShouldComponentUpdateResult ==
  last.op = "shouldComponentUpdate" =>
    IF ~player
    THEN last.ret = "false"
    ELSE IF ~SameHandlers(props, last.next)
    THEN /\ last.ret = "false"
         /\ Len(last.calls) = 2
         /\ last.calls[1].op = "off"
         /\ last.calls[1].ev = ALL
         /\ last.calls[2].op = "on"
         /\ last.calls[2].ev = ALL
         /\ last.calls[2].d = onHandler.id
         /\ last.calls[2].bag = last.next
         /\ last.calls[1].d # last.calls[2].d
    ELSE last.ret = "true"

\* C16: with a null handle, or with handlers that did not change,
\* shouldComponentUpdate(next) calls none of on, off, once and remove,
\* leaves the handle and the stored dispatch function as they were, and
\* does not throw.
C16_ShouldComponentUpdateFrame ==
  [][ ( /\ Recorded /\ last'.op = "shouldComponentUpdate"
        /\ ~player \/ SameHandlers(props, last'.next) )
      => ( /\ last'.calls = << >>
           /\ last'.err = ""
           /\ UNCHANGED << player, handle, onHandler, allChannel, onceTable, count >> )
    ]_vars

C16_Witness ==
  /\ last.op = "shouldComponentUpdate"
  /\ player
  /\ last.ret = "true"
  /\ last.calls = << >>
  /\ OnNames(last.next) # { }

\* C17: updateOnEventListener does not throw; with a null handle it calls
\* neither off nor on; with a handle and a null stored dispatch function it
\* calls no off and attaches the function it has built.
C17_UpdateToleratesNull ==
  [][ Recorded /\ last'.op = "updateOnEventListener"
      => ( /\ last'.err = ""
           /\ onHandler'.bag = last'.next
           /\ onHandler' # NoHandler
           /\ ~player =>
                /\ last'.calls = << >>
                /\ UNCHANGED << handle, allChannel, onceTable, count >>
           /\ (player /\ onHandler = NoHandler) =>
                /\ last'.calls = << OnCall(ALL, onHandler') >>
                /\ allChannel' = Append(allChannel, onHandler')
           /\ (player /\ onHandler # NoHandler) =>
                last'.calls = << OffCall(ALL, onHandler), OnCall(ALL, onHandler') >> )
    ]_vars

C17_Witness ==
  /\ last.op = "updateOnEventListener"
  /\ player
  /\ Len(last.calls) = 1
  /\ last.calls[1].op = "on"
  /\ Len(allChannel) = 2

\* the identities of the functions attached to a channel
AttachedIds(ch) == { ch[i].id : i \in 1..Len(ch) }

\* C18: over shouldComponentUpdate and updateOnEventListener calls, off('all',
\* fn) is called only with a function attached at that moment, which is
\* then attached no more and is replaced by a newly made one, so that no
\* function is passed to off('all', fn) twice.
C18_OffOnlyAttachedOnce ==
  [][ Recorded /\ last'.op \in { "shouldComponentUpdate", "updateOnEventListener", "render",
                                      "updateEffect" }
      => \A i \in 1..Len(last'.calls) :
           /\ last'.calls[i].op = "off" =>
                /\ i = 1
                /\ last'.calls[i].d \in AttachedIds(allChannel)
                /\ last'.calls[i].d \notin AttachedIds(allChannel')
                /\ last'.calls[i].d # onHandler'.id
                /\ CountOp(last'.calls, "off") = 1
           /\ last'.calls[i].op = "on" =>
                /\ last'.calls[i].d \notin AttachedIds(allChannel)
                /\ last'.calls[i].d # onHandler.id
                /\ last'.calls[i].d = onHandler'.id
    ]_vars

C18_Witness ==
  /\ last.op = "updateOnEventListener"
  /\ player
  /\ CountOp(last.calls, "off") = 1
  /\ onHandler.id = 1
  /\ onHandler.bag = B_empty

\* the bags the functions attached to a channel dispatch to, in order
AttachedBags(ch) == [i \in 1..Len(ch) |-> ch[i].bag]

\* C19: updateOnEventListener(P) applied a second time in succession leaves
\* the subscriptions as the first application left them: one dispatch
\* function on the 'all' channel, dispatching to the handlers of P.
C19_RebindIdempotent ==
  [][ ( /\ last.op = "updateOnEventListener"
        /\ Recorded /\ last'.op = "updateOnEventListener"
        /\ last'.next = last.next
        /\ player )
      => ( /\ AttachedBags(allChannel') = AttachedBags(allChannel)
           /\ onceTable' = onceTable
           /\ handle' = handle
           /\ Len(allChannel') = 1
           /\ \A e \in Events :
                ChannelCalls(allChannel', e) = Dispatch(last'.next, e, Payload) )
    ]_vars

\* the property that names the fire-once handler of event e: once, then e
\* with its first letter in upper case
OncePropertyOf(e) == << "o", "n", "c", "e", ToUpperCase(e[1]) >> \o Tail(e)

\* C20: the mount transition calls once(name, handler) once for each
\* function-valued once* property of the bag current at that time, and no
\* other once(); shouldComponentUpdate, updateOnEventListener and a
\* re-render call no once() and remove no once-handler.
C20_OnceBoundAtMountOnly ==
  /\ [] ( (last.op = "resume" /\ last.err = "") =>
            /\ \A e \in Events :
                 Occurrences(last.calls,
                             OnceCall(e, Get(props, OncePropertyOf(e))))
                   = (IF Get(props, OncePropertyOf(e)) \in Funcs THEN 1 ELSE 0)
            /\ CountOp(last.calls, "once")
                 = Cardinality({ e \in Events : Get(props, OncePropertyOf(e)) \in Funcs }) )
  /\ [][ Recorded /\ last'.op \in { "shouldComponentUpdate", "updateOnEventListener", "render",
                                      "updateEffect" }
         => ( /\ CountOp(last'.calls, "once") = 0
              /\ onceTable' = onceTable )
       ]_vars

C20_Witness ==
  /\ last.op = "updateOnEventListener"
  /\ player
  /\ Len(last.calls) = 2
  /\ onceTable = << [ev |-> E_pause, fn |-> "g1"] >>

\* name k follows the fire-once pattern: once, then a capitalized event name
IsOnceName(k) ==
  /\ Len(k) > 4
  /\ SubSeq(k, 1, 4) = << "o", "n", "c", "e" >>
  /\ IsUpper(k[5])

\* bags a and b differ, and in fire-once properties only
OnceOnlyChange(a, b) ==
  LET names == { a[i].k : i \in 1..Len(a) } \cup { b[i].k : i \in 1..Len(b) } IN
  /\ \A k \in names : ~IsOnceName(k) => (Has(a, k) <=> Has(b, k)) /\ Get(a, k) = Get(b, k)
  /\ \E k \in names : IsOnceName(k) /\ (Get(a, k) # Get(b, k) \/ (Has(a, k) <=> ~Has(b, k)))

\* C21: when the next bag differs from the current one in fire-once
\* properties only, didOnEventsChange returns false and
\* shouldComponentUpdate makes no off or on call.
C21_OnceChangeIsNoEventChange ==
  ( /\ last.op = "shouldComponentUpdate"
    /\ player
    /\ OnceOnlyChange(props, last.next) )
  => /\ ~didOnEventsChange(props, last.next)
     /\ last.calls = << >>
     /\ last.ret = "true"
     /\ count.attached = 1

C21_Witness ==
  /\ last.op = "shouldComponentUpdate"
  /\ player
  /\ Get(props, K_oncePause) = "g1"
  /\ Get(last.next, K_oncePause) = "g2"
  /\ Get(props, K_onPlay) = "f1"
  /\ OnceOnlyChange(props, last.next)

\* name k follows the fire-every pattern: on, then a capitalized event name
IsOnName(k) ==
  /\ Len(k) > 2
  /\ SubSeq(k, 1, 2) = << "o", "n" >>
  /\ IsUpper(k[3])

\* the text of k after its first n characters, first letter lower-cased
Remainder(k, n) ==
  LET r == SubSeq(k, n + 1, Len(k)) IN
  << ToLowerCase(r[1]) >> \o SubSeq(r, 2, Len(r))

\* the kinds a property name belongs to
KindsOf(k) ==
  LET every == getHandlerName(k, ON_REGEX)
      once == getHandlerName(k, ONCE_REGEX)
  IN  (IF every # << >> /\ every # ALL THEN { "fire-every" } ELSE {})
      \cup (IF once # << >> THEN { "fire-once" } ELSE {})
      \cup (IF every = ALL THEN { "all" } ELSE {})
      \cup (IF every = << >> /\ once = << >> THEN { "none" } ELSE {})

\* C22: a name on+Capitalized extracts under the fire-every pattern to the
\* remainder with its first letter lower-cased (onPlay -> play), a name
\* once+Capitalized extracts so under the fire-once pattern only
\* (oncePlaylistComplete -> playlistComplete), onAll extracts to all, every
\* other name extracts to the empty name, and each name has exactly one kind.
C22_Classification ==
  last.op = "getHandlerName"
  => /\ last.regex = ON_REGEX
        => last.name = (IF IsOnName(last.prop) THEN Remainder(last.prop, 2) ELSE << >>)
     /\ last.regex = ONCE_REGEX
        => last.name = (IF IsOnceName(last.prop) THEN Remainder(last.prop, 4) ELSE << >>)
     /\ Cardinality(KindsOf(last.prop)) = 1
     /\ (last.prop = K_onPlay /\ last.regex = ON_REGEX) => last.name = E_play
     /\ last.prop = K_oncePlaylistComplete
        => /\ KindsOf(last.prop) = { "fire-once" }
           /\ last.regex = ONCE_REGEX
              => last.name = << "p","l","a","y","l","i","s","t","C","o","m","p","l","e","t","e" >>
           /\ last.regex = ON_REGEX => last.name = << >>
     /\ last.prop = K_onAll => KindsOf(last.prop) = { "all" }
     /\ last.prop = K_playlist
        => last.name = << >> /\ KindsOf(last.prop) = { "none" }

C22_Witness ==
  /\ last.op = "getHandlerName"
  /\ last.prop = K_oncePlaylistComplete
  /\ last.regex = ONCE_REGEX
  /\ last.name # << >>

\* C23: a property named on*, once* or onAll whose value is not a function is
\* never invoked and never registered with once(), and neither the mount nor
\* a dispatch throws.
C23_NonFunctionSkipped ==
  /\ last.op \in { "resume", "deliver" }
     => /\ last.err = ""
        /\ \A i \in 1..Len(last.calls) :
             last.calls[i].op \in { "invoke", "once" } => IsFunction(last.calls[i].fn)
  /\ \A i \in 1..Len(onceTable) : IsFunction(onceTable[i].fn)

C23_Witness ==
  /\ last.op = "deliver"
  /\ last.name = E_pause
  /\ Get(props, K_oncePause) = "3"
  /\ Get(props, K_onAll) = "3"
  /\ last.calls = << >>

\* the properties of a bag that are not handler-named
PlainKeys(bag) ==
  { bag[i].k : i \in 1..Len(bag) } \ { k \in { bag[i].k : i \in 1..Len(bag) } :
                                         IsOnName(k) \/ IsOnceName(k) }

\* the callable onAll values of a bag, in property order
RECURSIVE AllHandlers(_)
AllHandlers(bag) ==
  IF bag = << >> THEN << >>
  ELSE (IF Head(bag).k = K_onAll /\ IsFunction(Head(bag).v)
        THEN << Head(bag).v >> ELSE << >>) \o AllHandlers(Tail(bag))

\* C24: an event with the empty name invokes no on<E> handler and does not
\* throw, although every non-handler property extracts to the empty name;
\* every callable onAll handler is invoked with ('', payload).
C24_EmptyEventName ==
  (last.op = "deliver" /\ last.name = E_empty)
  => /\ last.err = ""
     /\ \A k \in PlainKeys(props) : getHandlerName(k, ON_REGEX) = E_empty
     /\ Len(last.calls) = Len(AllHandlers(props))
     /\ \A i \in 1..Len(last.calls) :
          last.calls[i] = Invoke2(AllHandlers(props)[i], E_empty, Payload)

C24_Witness ==
  /\ last.op = "deliver"
  /\ last.name = E_empty
  /\ Get(props, K_unsupported) = "3"
  /\ Get(props, K_onAll) = "a1"
  /\ last.calls = << Invoke2("a1", E_empty, Payload) >>

\* the configuration of the setup call of a list of calls
SetupCfg(cs) == cs[CHOOSE i \in 1..Len(cs) : cs[i].op = "setup"].cfg

\* C25: the configuration passed to setup is the defaults, overlaid by the
\* config object, overlaid by the whitelisted individual properties, with
\* isReactComponent true on top; no other property of the bag appears.
C25_EffectiveConfiguration ==
  (last.op = "resume" /\ last.err = "")
  => LET cfg == SetupCfg(last.calls)
         object == IF Get(mountProps, K_config) \in ObjectRefs
                   THEN ObjectAt(Get(mountProps, K_config)) ELSE << >>
     IN  /\ CountOp(last.calls, "setup") = 1
         /\ Get(cfg, K_isReactComponent) = "true"
         /\ \A k \in Names \ { K_isReactComponent } :
              /\ (k \in configProps /\ Has(mountProps, k))
                 => Get(cfg, k) = Get(mountProps, k)
              /\ (~(k \in configProps /\ Has(mountProps, k)) /\ Has(object, k))
                 => Get(cfg, k) = Get(object, k)
              /\ (~(k \in configProps /\ Has(mountProps, k)) /\ ~Has(object, k))
                 => /\ Get(cfg, k) = Get(jwDefaults, k)
                    /\ Has(cfg, k) <=> Has(jwDefaults, k)
         /\ \A i, j \in 1..Len(cfg) : cfg[i].k = cfg[j].k => i = j

C25_Witness ==
  /\ last.op = "resume"
  /\ last.err = ""
  /\ jwDefaults = D_some
  /\ mountProps = B_mixed
  /\ Get(SetupCfg(last.calls), K_width) = "720"
  /\ Get(SetupCfg(last.calls), K_height) = "300"
  /\ Get(SetupCfg(last.calls), K_playlist) = "dpl"
  /\ Get(SetupCfg(last.calls), K_isReactComponent) = "true"
  /\ ~Has(SetupCfg(last.calls), K_unsupported)

\* the identifiers of the instances that are mounted
MountedIds ==
  (IF phase \in { "unmounting", "unmounted" } THEN << >> ELSE << id >>) \o others

\* C26: no two instances mounted at the same time have the same identifier,
\* generated or supplied.
C26_IdsDistinct ==
  \A i, j \in 1..Len(MountedIds) : MountedIds[i] = MountedIds[j] => i = j

\* generated identifiers alone never coincide
C26_GeneratedDistinct ==
  \A i, j \in 1..Len(MountedIds) :
    (MountedIds[i] = MountedIds[j] /\ MountedIds[i].prefix = "jwplayer") => i = j

\* C27: an instance rendered without an id consumes exactly one value of
\* the counter over its whole life, re-renders included, and an instance
\* rendered with an id consumes none: with one instance on the page the
\* counter stands at 0 in the first case and at its initial -1 in the second.
C27_OneCounterValuePerInstance ==
  others = << >> => idIndex = (IF id.prefix = "jwplayer" THEN 0 ELSE -1)

\* C28: generateUniqueId returns jwplayer-n: the n of the first call of a
\* page is 0 and the n of every call is one more than that of the call
\* before it, whether the call is made directly or by a render; no two calls
\* return the same value; the counter is never reset or decreased, and a
\* step changes it only by a call, which raises it by one.
C28_GenerateUniqueId ==
  /\ [](\A i \in 1..Len(issued) : issued[i] = [prefix |-> "jwplayer", n |-> i - 1])
  /\ [](\A i, j \in 1..Len(issued) : issued[i] = issued[j] => i = j)
  /\ [](idIndex = Len(issued) - 1)
  /\ [][ /\ idIndex' >= idIndex
         /\ SubSeq(issued', 1, Len(issued)) = issued
         /\ Len(issued') = Len(issued) + (idIndex' - idIndex)
         /\ idIndex' \in { idIndex, idIndex + 1 } ]_vars
  /\ [](id.prefix = "jwplayer" => id.n = 0)
  /\ [][ Recorded /\ last'.op = "generateUniqueId"
         => /\ idIndex' = idIndex + 1
            /\ last'.id = [prefix |-> "jwplayer", n |-> idIndex + 1]
            /\ issued' = Append(issued, last'.id)
            /\ last'.id.n >= 0 ]_vars

\* four calls have been made, directly and by the renders of two instances
C28_Witness ==
  /\ last.op = "generateUniqueId"
  /\ last.id = [prefix |-> "jwplayer", n |-> 3]
  /\ Len(issued) = 4
  /\ id = [prefix |-> "jwplayer", n |-> 0]
  /\ \E i \in 1..Len(others) : others[i].prefix = "jwplayer"

\* C29: the identifier of an instance is the one of its first render (the
\* supplied id if truthy, a generated one otherwise), no later render changes
\* it, and didMountCallback and willUnmountCallback are passed that id.
C29_IdFixedAtFirstRender ==
  /\ [](id = IdArgument(mountProps, -1).id)
  /\ [][id' = id]_vars
  /\ [](\A i \in 1..Len(last.calls) :
          last.calls[i].op \in { "didMountCallback", "willUnmountCallback" }
          => last.calls[i].id = id)

C29_Witness ==
  /\ last.op = "unmount"
  /\ id = [prefix |-> "jwplayer", n |-> 0]
  /\ Get(props, K_id) = "custom"
  /\ \E i \in 1..Len(last.calls) :
       /\ last.calls[i].op = "willUnmountCallback"
       /\ last.calls[i].id = id

\* C30: a mount transition that completes invokes the didMountCallback of its
\* bag exactly once, with the handle setup has just returned and the
\* identifier of the instance; a mount transition that aborts, and every
\* other operation, never invokes it.
C30_DidMountCallbackOnce ==
  IF last.op = "resume" /\ last.err = ""
  THEN IF Truthy(Get(mountProps, K_didMountCallback))
       THEN /\ CountOp(last.calls, "didMountCallback") = 1
            /\ last.calls[Len(last.calls)] =
                 LifecycleCall("didMountCallback", Get(mountProps, K_didMountCallback),
                               "handle", id)
            /\ handle = "live"
            /\ player
       ELSE CountOp(last.calls, "didMountCallback") = 0
  ELSE CountOp(last.calls, "didMountCallback") = 0

C30_Witness ==
  /\ last.op = "resume"
  /\ last.err = ""
  /\ mountProps = B_play1
  /\ last.calls[Len(last.calls)] = LifecycleCall("didMountCallback", "m1", "handle", id)

\* a mount transition that aborted after the loader resolved
C30_AbortWitness ==
  /\ last.op = "resume"
  /\ last.err = "TypeError"
  /\ Truthy(Get(mountProps, K_didMountCallback))
  /\ last.calls = << >>

\* the instances whose script has been requested and has not loaded yet
LoadingCount ==
  Cardinality({ c \in pending : c.st = "loading" })
  + Cardinality({ i \in 1..Len(otherLoad) : otherLoad[i].st = "loading" })

\* C31: every instance that mounts while the runtime is absent issues a
\* script request of its own, whatever requests are already outstanding, an
\* instance that mounts once the runtime is installed issues none, and
\* nothing else issues one.
C31_OneRequestPerInstance ==
  [][ /\ Recorded /\ last'.op = "componentDidMount"
         => count'.scripts - count.scripts =
              (IF ~hasRuntime /\ Truthy(Get(mountProps, K_library)) THEN 1 ELSE 0)
      /\ Recorded /\ last'.op = "otherMount"
         => \E i \in 1..Len(otherLoad) :
              /\ otherLoad[i].st = "rendered"
              /\ otherLoad'[i].st # "rendered"
              /\ count'.scripts - count.scripts =
                   (IF ~hasRuntime /\ Truthy(Get(otherLoad[i].mountProps, K_library)) THEN 1 ELSE 0)
      /\ last'.op \notin { "componentDidMount", "otherMount" }
         => count'.scripts = count.scripts
    ]_vars

C31_Witness ==
  /\ ~hasRuntime
  /\ Len(others) = 2
  /\ LoadingCount = 3
  /\ count.scripts = 3
  /\ last.op \in { "componentDidMount", "otherMount" }

\* an instance mounted after the runtime was installed by another's script
C31_LateWitness ==
  /\ hasRuntime
  /\ last.op = "otherMount"
  /\ count.scripts = 1
  /\ last.err = ""
  /\ \E i \in 1..Len(otherLoad) : otherLoad[i].st = "mounted"
  /\ \E i \in 1..Len(otherLoad) : otherLoad[i].st = "resolved"
  /\ Len(others) = 2

\* the mount attempt has failed: the loader threw or the script reported an error
MountFailed ==
  \/ last.op = "scriptError"
  \/ last.op = "componentDidMount" /\ last.err # ""

\* the part of C32 about the states: every mount attempt leaves the loading
\* state; on success the handle is non-null with one dispatch function attached
\* and the update effect becomes enabled (line 436, one microtask after the
\* mount call returned); on failure the handle stays null and the update
\* effect stays disabled ever after.
C32_LeavesLoading ==
  /\ (pending # { }) ~> (pending = { })
  /\ []( (last.op = "resume" /\ last.err = "")
         => (player /\ handle = "live" /\ Len(allChannel) = 1
             /\ (mountedRef \/ settling)) )
  /\ settling ~> mountedRef
  /\ [](MountFailed => (~player /\ ~mountedRef /\ ~settling /\ handle = "none"
                        /\ pending = { }))
  /\ [][ (phase # "rendered" /\ pending = { } /\ ~mountedRef /\ ~settling)
         => (~mountedRef' /\ ~settling' /\ ~player' /\ handle' = "none"
             /\ pending' = { }) ]_vars

\* C32: under fairness of the loader outcome every mount attempt leaves the
\* loading state; on success the instance is mounted (handle non-null, one
\* dispatch function attached, update effect enabled) and a later property
\* update is reconciled: after a re-render a 'play' event reaches the handlers
\* of the new bag; on failure the handle stays null and the update effect
\* never becomes active.
C32_MountAttemptEnds ==
  /\ C32_LeavesLoading
  /\ [][ (Recorded /\ last'.op = "updateEffect" /\ mountedRef /\ player)
         => ChannelCalls(allChannel', E_play) = Dispatch(props', E_play, Payload) ]_vars

\* C33: after a direct call shouldComponentUpdate(nextProps) on an instance
\* with a handle that has only been rendered with its first bag, whatever
\* direct calls came before, an event the player emits is dispatched to the
\* handlers of nextProps.
C33_DispatchFollowsLastCall ==
  (last.op = "shouldComponentUpdate" /\ player /\ props = mountProps)
  => \A e \in Events :
       ChannelCalls(allChannel, e) = Dispatch(last.next, e, Payload)

\* C34: when the loader has resolved and the mount completes, the setup
\* configuration, the didMountCallback, the once() registrations and the
\* dispatch function all come from the bag that is current at that moment,
\* and so does the library url the loader was given.
C34_OneBagAtCreation ==
  [][ (Recorded /\ last'.op = "resume" /\ last'.err = "")
      => /\ last'.calls =
              MountCalls(props, props, jwDefaults, onHandler'.id, id)
         /\ \A c \in pending \ pending' :
              c.src \in { "", createPlayerLoadPromise(Get(props, K_library)) }
    ]_vars

\* C35: the willUnmountCallback invoked at unmount is that of the bag of the
\* latest render: it is called if and only if that bag has one, and it is
\* that bag's function.
C35_LatestWillUnmountCallback ==
  last.op = "unmount"
  => IF Truthy(Get(props, K_willUnmountCallback))
     THEN /\ CountOp(last.calls, "willUnmountCallback") = 1
          /\ last.calls[1].op = "willUnmountCallback"
          /\ last.calls[1].fn = Get(props, K_willUnmountCallback)
     ELSE CountOp(last.calls, "willUnmountCallback") = 0

\* C36: whenever the handle reference is non-null, the stored dispatch
\* function is non-null and is attached to the 'all' channel of the live
\* handle.
C36_StoredDispatchAttached ==
  player
  => /\ onHandler # NoHandler
     /\ handle = "live"
     /\ \E i \in 1..Len(allChannel) : allChannel[i] = onHandler

C36_Witness ==
  /\ player
  /\ last.op = "shouldComponentUpdate"
  /\ Len(last.calls) = 2
  /\ allChannel = << onHandler >>
  /\ onHandler.bag = last.next

\* C37: once the unmount has completed the handle reference is null,
\* shouldComponentUpdate returns false, and neither it nor
\* updateOnEventListener makes a call on the destroyed handle.
C37_NothingAfterUnmount ==
  /\ [](phase = "unmounted" => ~player)
  /\ [][ (phase = "unmounted" /\ Recorded /\ last'.op \in { "shouldComponentUpdate",
                                                 "updateOnEventListener" })
         => /\ last'.calls = << >>
            /\ last'.err = ""
            /\ last'.op = "shouldComponentUpdate" => last'.ret = "false"
            /\ ~player'
            /\ UNCHANGED << handle, allChannel, onceTable, count >> ]_vars

C37_Witness ==
  /\ phase = "unmounted"
  /\ handle = "removed"
  /\ last.op = "shouldComponentUpdate"
  /\ last.ret = "false"
  /\ Get(props, K_onPlay) = "f2"
  /\ last.next = B_empty
  /\ count.remove = 1

\* updateOnEventListener called after the unmount
C37_UpdateWitness ==
  /\ phase = "unmounted"
  /\ handle = "removed"
  /\ last.op = "updateOnEventListener"
  /\ last.calls = << >>
  /\ onHandler.bag = last.next

====
